---- MODULE Spec2Model ----
(***************************************************************************)
(* Verification model of the AI-RoboticsNews ingestion pipeline:           *)
(*   - utils.rate_limit            (minimum-interval throttle)             *)
(*   - utils.safe_request          (retry with exponential backoff)        *)
(*   - IntelligentSummarizeAgent.cluster_items_by_topic                    *)
(*   - NewsMonitor / RSSNewsMonitor / PapersWithCodeMonitor                *)
(*     ._remove_duplicates                                                 *)
(* Each subsystem has its own specification (SpecRate, SpecRetry,          *)
(* SpecCluster, SpecDedup); the variables of the other subsystems are      *)
(* held at their initial value.                                            *)
(*                                                                         *)
(* Text is modelled with TLA+ strings; Len, SubSeq and \o act on them as   *)
(* Python's len, slicing and + do.  Relevance scores are floats with one   *)
(* decimal in the source and are modelled in tenths (3.0 is 30).  Time is  *)
(* modelled in integer units, UnitsPerSecond to the second.                *)
(***************************************************************************)
EXTENDS Integers, Sequences, FiniteSets, TLC

VARIABLES
    \* ---- utils.rate_limit ----
    now,               \* time.time()
    calls_per_minute,  \* the decorator's argument
    last_called,       \* last_called[0] of the closure
    rl_pc,             \* position of the wrapper: "idle", "sleeping", "calling"
    wake_at,           \* earliest time at which time.sleep(left_to_wait) returns
    invoked_at,        \* time at which the current invocation entered wrapper
    call_began,        \* time at which func(*args) began in the current invocation
    prev_return,       \* time at which the previous invocation left the wrapper
    prev_outcome,      \* "none", "returned" or "raised": how it left
    idle_gaps,         \* <<idle time before the previous invocation, before this one>>
    \* ---- utils.safe_request under @retry ----
    rq_pc,             \* "attempt", "backoff", "returned", "raised"
    tries_left,        \* _tries of the retry loop
    delay,             \* _delay of the retry loop
    history,           \* outcome of every attempt made so far, in order
    waits,             \* every time.sleep(_delay) made so far, in order
    \* ---- IntelligentSummarizeAgent.cluster_items_by_topic ----
    items,             \* the argument: a list of items
    cl_pc,             \* "off", "loop", "fallback", "done"
    cl_idx,            \* position in items of the item the for loop takes next
    clusters,          \* the defaultdict: cluster id -> list of items (by position)
    unclustered,       \* the list unclustered (items by position)
    best_of,           \* best_cluster found for each item taken so far ("" for None)
    github_status,     \* 'status' of what analyze_github_clusters returned, "none" before
    \* ---- _remove_duplicates of the three monitors ----
    variant,           \* "news", "rss" or "papers": whose _remove_duplicates runs
    dd_pc,             \* "off", "loop", "done"
    dd_pass,           \* 1: the run on the input, 2: the run on the output of run 1
    articles,          \* the argument of the current run
    dd_idx,            \* position in articles of the item the for loop takes next
    seen_titles,       \* the set seen_titles
    seen_urls,         \* the set seen_urls
    unique_articles,   \* the list unique_articles / unique_papers
    dd_input,          \* the argument of run 1
    first_output,      \* what run 1 returned
    verdict,           \* per article of this run: "accepted", "exact" or "similar"
    \* ---- analyze_*_clusters and the email agents' merge of their results ----
    ag_pc,             \* "off", "github", "papers", "news", "merge", "merged", "built"
    agent,             \* "none", "intelligent" or "enhanced": whose merge runs
    clustered_commits, \* what cluster_items_by_topic returned for the commits
    clustered_papers,  \* ... for the papers
    clustered_articles, \* ... for the articles
    github_analysis,   \* what analyze_github_clusters returned
    papers_analysis,   \* what analyze_paper_clusters returned
    news_analysis,     \* what analyze_news_clusters returned
    all_clusters,      \* the dict all_clusters, in insertion order
    sorted_clusters,    \* the list sorted_clusters
    \* ---- main.main and SafeDailyDigestScheduler.run_daily_digest ----
    program,           \* "none", "main" (main.py) or "scheduler" (daily_scheduler_safe.py)
    run_pc,            \* "off", "start", "collect", "digest", "send", "done"
    worker,            \* per source: "pending", "running", "fallback", "done"
    produced,          \* per source: the list the monitor returned, [] if none did
    raised,            \* per source: the collection of the source raised
    future_result,     \* per source: what collect_*_data returned
    taken,             \* the sources in the order as_completed yielded them
    x_data,            \* github_data, papers_data, news_data: <<>> for None
    digest_input,      \* <<>>, or <<the data create_intelligent_digest was given>>
    email_content,     \* "none", "digest", "fallback_content"
    email_sent,        \* the email went out
    outcome,            \* "none", "no_data", "digest_failed", "sent", "send_failed"
    \* ---- the fetch operations of the adapters ----
    adapter,           \* "none", "github", "news", "papers" or "rss"
    fetch_pc,          \* "off", "request", "loop", "done"
    response,          \* what the request ended in
    loop_records,      \* the records the for loop goes over
    f_idx,             \* position in loop_records of the record taken next
    processed,         \* the list built by the loop (records by position)
    fetch_result,       \* how the operation ended: raised, or the list returned
    \* ---- the relevance scorers ----
    score_calls,
    \* ---- the display slice of a cluster bucket ----
    slice_pc,
    slice_kind,
    monitor_list,
    cluster_bucket,
    raw_slice,
    \* ---- one record through an adapter ----
    rec_adapter,
    rec_pc,
    rec_now,
    raw_record,
    built_record,
    appended,
    in_paper_bucket,
    \* ---- the commit adapter ----
    gh_pc,
    gh_idx,
    github_commits,
    github_contributors,
    \* ---- the workers of main and their requests ----
    net_clock,
    th,
    limiter,
    returned_at,
    in_flight,
    sent_at,
    main_pc

rateVars  == <<now, calls_per_minute, last_called, rl_pc, wake_at, invoked_at,
               call_began, prev_return, prev_outcome, idle_gaps>>
retryVars == <<rq_pc, tries_left, delay, history, waits>>
clusterVars == <<items, cl_pc, cl_idx, clusters, unclustered, best_of, github_status>>
dedupVars == <<variant, dd_pc, dd_pass, articles, dd_idx, seen_titles, seen_urls,
               unique_articles, dd_input, first_output, verdict>>
aggVars == <<ag_pc, agent, clustered_commits, clustered_papers, clustered_articles,
             github_analysis, papers_analysis, news_analysis, all_clusters,
             sorted_clusters>>
runVars == <<program, run_pc, worker, produced, raised, future_result, taken, x_data,
             digest_input, email_content, email_sent, outcome>>
fetchVars == <<adapter, fetch_pc, response, loop_records, f_idx, processed,
               fetch_result>>
scoreVars == <<score_calls>>
sliceVars == <<slice_pc, slice_kind, monitor_list, cluster_bucket, raw_slice>>
recordVars == <<rec_adapter, rec_pc, rec_now, raw_record, built_record, appended, in_paper_bucket>>
commitsVars == <<gh_pc, gh_idx, github_commits, github_contributors>>
netVars == <<net_clock, th, limiter, returned_at, in_flight, sent_at, main_pc>>
vars      == <<rateVars, retryVars, clusterVars, dedupVars, aggVars, runVars, fetchVars, scoreVars, sliceVars, recordVars, commitsVars, netVars>>

Min(a, b) == IF a <= b THEN a ELSE b

\* the other subsystems at rest
ClusterOff ==
    /\ items = <<>>
    /\ cl_pc = "off"
    /\ cl_idx = 1
    /\ clusters = [c \in {} |-> <<>>]
    /\ unclustered = <<>>
    /\ best_of = <<>>
    /\ github_status = "none"

DedupOff ==
    /\ variant = "news"
    /\ dd_pc = "off"
    /\ dd_pass = 1
    /\ articles = <<>>
    /\ dd_idx = 1
    /\ seen_titles = {}
    /\ seen_urls = {}
    /\ unique_articles = <<>>
    /\ dd_input = <<>>
    /\ first_output = <<>>
    /\ verdict = <<>>

(***************************************************************************)
(* utils.rate_limit                                                        *)
(***************************************************************************)
UnitsPerSecond == 1     \* resolution of the model's clock
StartTime      == 3     \* time.time() at start: far above 60/calls_per_minute
MaxTime        == 12    \* the clock stops advancing here
MaxCallTime    == 2     \* longest duration of the wrapped call
MaxOversleep   == 1     \* time.sleep may return later than asked
MaxIdle        == 5     \* longest idle period between two invocations

\* calls_per_minute of the rate-limited operations of the repository
ConfiguredRates == {30, 100}

\* 60.0 / calls_per_minute, in units, times calls_per_minute (kept as a
\* product so that the arithmetic stays exact)
IntervalTimesRate == 60 * UnitsPerSecond

\* the rate limiter before its first invocation
RateOff ==
    /\ now = StartTime
    /\ calls_per_minute = 30
    /\ last_called = 0
    /\ rl_pc = "off"
    /\ wake_at = 0
    /\ invoked_at = 0
    /\ call_began = 0
    /\ prev_return = 0
    /\ prev_outcome = "none"
    /\ idle_gaps = <<0, 0>>

InitRate ==
    /\ now = StartTime
    /\ calls_per_minute \in ConfiguredRates
    /\ last_called = 0
    /\ rl_pc = "idle"
    /\ wake_at = 0
    /\ invoked_at = 0
    /\ call_began = 0
    /\ prev_return = 0
    /\ prev_outcome = "none"
    /\ idle_gaps = <<0, 0>>

\* time passes between two invocations
Idle ==
    /\ rl_pc = "idle"
    /\ \E d \in 1..MaxIdle :
         /\ now + d <= MaxTime
         /\ now' = now + d
    /\ UNCHANGED <<calls_per_minute, last_called, rl_pc, wake_at, invoked_at,
                   call_began, prev_return, prev_outcome, idle_gaps>>
    /\ UNCHANGED <<retryVars, clusterVars, dedupVars, aggVars, runVars, fetchVars, scoreVars, sliceVars, recordVars, commitsVars, netVars>>

\* last_called[0] after func, which began at time began, returned at time returned
LastCalledAtCallStart(began, returned) == began
LastCalledAfterFunc(began, returned) == returned

\* wrapper entry: elapsed, left_to_wait and the test left_to_wait > 0
WrapperEnter ==
    /\ rl_pc = "idle"
    /\ invoked_at' = now
    /\ idle_gaps' = <<idle_gaps[2],
                      IF prev_outcome = "none" THEN 0 ELSE now - prev_return>>
    /\ LET elapsed == now - last_called
       IN  IF IntervalTimesRate - elapsed * calls_per_minute > 0
           THEN /\ rl_pc' = "sleeping"
                \* the least t with t - now >= left_to_wait
                /\ wake_at' = CHOOSE t \in now..(now + IntervalTimesRate) :
                      /\ (t - last_called) * calls_per_minute >= IntervalTimesRate
                      /\ \A u \in now..(t - 1) :
                            (u - last_called) * calls_per_minute < IntervalTimesRate
                /\ UNCHANGED call_began
           ELSE /\ rl_pc' = "calling"
                /\ call_began' = now
                /\ UNCHANGED wake_at
    /\ UNCHANGED <<now, calls_per_minute, last_called, prev_return, prev_outcome>>
    /\ UNCHANGED <<retryVars, clusterVars, dedupVars, aggVars, runVars, fetchVars, scoreVars, sliceVars, recordVars, commitsVars, netVars>>

\* time.sleep(left_to_wait) returns, func(*args, **kwargs) begins
SleepReturns ==
    /\ rl_pc = "sleeping"
    /\ \E late \in 0..MaxOversleep :
         /\ wake_at + late <= MaxTime
         /\ now' = wake_at + late
    /\ call_began' = now'
    /\ rl_pc' = "calling"
    /\ UNCHANGED <<calls_per_minute, last_called, wake_at, invoked_at,
                   prev_return, prev_outcome, idle_gaps>>
    /\ UNCHANGED <<retryVars, clusterVars, dedupVars, aggVars, runVars, fetchVars, scoreVars, sliceVars, recordVars, commitsVars, netVars>>

\* func returns; last_called[0] = time.time(); return ret
FuncReturns ==
    /\ rl_pc = "calling"
    /\ \E d \in 0..MaxCallTime :
         /\ now + d <= MaxTime
         /\ now' = now + d
    /\ last_called' = LastCalledAfterFunc(call_began, now')
    /\ prev_return' = now'
    /\ prev_outcome' = "returned"
    /\ rl_pc' = "idle"
    /\ UNCHANGED <<calls_per_minute, wake_at, invoked_at, call_began, idle_gaps>>
    /\ UNCHANGED <<retryVars, clusterVars, dedupVars, aggVars, runVars, fetchVars, scoreVars, sliceVars, recordVars, commitsVars, netVars>>

\* func raises: the exception leaves the wrapper before last_called is set
FuncRaises ==
    /\ rl_pc = "calling"
    /\ \E d \in 0..MaxCallTime :
         /\ now + d <= MaxTime
         /\ now' = now + d
    /\ prev_return' = now'
    /\ prev_outcome' = "raised"
    /\ rl_pc' = "idle"
    /\ UNCHANGED <<calls_per_minute, last_called, wake_at, invoked_at,
                   call_began, idle_gaps>>
    /\ UNCHANGED <<retryVars, clusterVars, dedupVars, aggVars, runVars, fetchVars, scoreVars, sliceVars, recordVars, commitsVars, netVars>>

(***************************************************************************)
(* utils.safe_request under @retry(tries=3, delay=1, backoff=2)            *)
(***************************************************************************)
Tries   == 3
Delay   == 1
Backoff == 2

\* what one requests.get can come to: a response with a status code, or an
\* exception of requests.exceptions (status 0)
Outcomes ==
    {[kind |-> "response", status |-> c] : c \in {200, 404, 429, 503}}
      \cup {[kind |-> k, status |-> 0] : k \in {"ConnectionError", "Timeout"}}

\* response.raise_for_status(): HTTPError for 4xx and 5xx
RaiseForStatus(o) == 400 <= o.status /\ o.status < 600

\* the body of safe_request raises (requests.get raised, or raise_for_status did)
AttemptRaises(o) == o.kind # "response" \/ RaiseForStatus(o)

\* the failures the specification calls non-retryable: 4xx other than 429
NonRetryable(o) ==
    o.kind = "response" /\ 400 <= o.status /\ o.status < 500 /\ o.status # 429

\* _delay *= backoff
NextDelayConstant(d) == d
NextDelay(d) == d * Backoff

RetryOff ==
    /\ rq_pc = "off"
    /\ tries_left = Tries
    /\ delay = Delay
    /\ history = <<>>
    /\ waits = <<>>

InitRetry ==
    /\ rq_pc = "attempt"
    /\ tries_left = Tries
    /\ delay = Delay
    /\ history = <<>>
    /\ waits = <<>>

\* one pass of the retry loop up to the sleep: return f(), or catch the
\* exception, count the try down and re-raise on the last one
Attempt ==
    /\ rq_pc = "attempt"
    /\ \E o \in Outcomes :
         /\ history' = Append(history, o)
         /\ IF AttemptRaises(o)
            THEN /\ tries_left' = tries_left - 1
                 /\ rq_pc' = IF tries_left' = 0 THEN "raised" ELSE "backoff"
            ELSE /\ rq_pc' = "returned"
                 /\ UNCHANGED tries_left
    /\ UNCHANGED <<delay, waits>>
    /\ UNCHANGED <<rateVars, clusterVars, dedupVars, aggVars, runVars, fetchVars, scoreVars, sliceVars, recordVars, commitsVars, netVars>>

\* time.sleep(_delay); _delay *= backoff
BackoffSleep ==
    /\ rq_pc = "backoff"
    /\ waits' = Append(waits, delay)
    /\ delay' = NextDelay(delay)
    /\ rq_pc' = "attempt"
    /\ UNCHANGED <<tries_left, history>>
    /\ UNCHANGED <<rateVars, clusterVars, dedupVars, aggVars, runVars, fetchVars, scoreVars, sliceVars, recordVars, commitsVars, netVars>>

(***************************************************************************)
(* Text: the str methods the pipeline uses                                 *)
(***************************************************************************)
UpperToLower ==
    [ A |-> "a", B |-> "b", C |-> "c", D |-> "d", E |-> "e", F |-> "f", G |-> "g", H |-> "h", I |-> "i", J |-> "j", K |-> "k", L |-> "l", M |-> "m",
      N |-> "n", O |-> "o", P |-> "p", Q |-> "q", R |-> "r", S |-> "s", T |-> "t", U |-> "u", V |-> "v", W |-> "w", X |-> "x", Y |-> "y", Z |-> "z" ]

LowerChar(c) == IF c \in DOMAIN UpperToLower THEN UpperToLower[c] ELSE c

\* str.lower()
RECURSIVE Lower(_)
Lower(s) ==
    IF s = "" THEN "" ELSE LowerChar(SubSeq(s, 1, 1)) \o Lower(SubSeq(s, 2, Len(s)))

Whitespace == {" ", "\t", "\n"}

RECURSIVE LStrip(_)
LStrip(s) ==
    IF s # "" /\ SubSeq(s, 1, 1) \in Whitespace THEN LStrip(SubSeq(s, 2, Len(s))) ELSE s

RECURSIVE RStrip(_)
RStrip(s) ==
    IF s # "" /\ SubSeq(s, Len(s), Len(s)) \in Whitespace
    THEN RStrip(SubSeq(s, 1, Len(s) - 1)) ELSE s

\* str.strip()
Strip(s) == RStrip(LStrip(s))

\* k in t, for strings
Contains(k, t) ==
    \E i \in 1..(Len(t) - Len(k) + 1) : SubSeq(t, i, i + Len(k) - 1) = k

\* s[:n]
Prefix(s, n) == SubSeq(s, 1, Min(n, Len(s)))

\* " ".join(parts)
RECURSIVE Join(_)
Join(parts) ==
    IF parts = <<>> THEN ""
    ELSE IF Len(parts) = 1 THEN parts[1]
    ELSE parts[1] \o " " \o Join(Tail(parts))

(***************************************************************************)
(* IntelligentSummarizeAgent.cluster_items_by_topic                        *)
(***************************************************************************)
MaxItems == 3           \* longest list of items

\* self.topic_clusters: the keywords of each cluster, and the order of the dict
topic_clusters ==
    [ openai |-> <<"openai", "chatgpt", "gpt-4", "gpt-5", "dall-e", "whisper", "o1">>,
      deepmind |-> <<"deepmind", "gemini", "bard", "alphafold", "alphacode">>,
      humanoids |-> <<"humanoid", "figure ai", "sanctuary ai", "1x technologies", "boston dynamics", "atlas">>,
      tesla_nvidia |-> <<"tesla", "nvidia", "fsd", "autonomous", "self-driving", "cuda">>,
      anthropic |-> <<"anthropic", "claude", "constitutional ai">>,
      regulation_ethics |-> <<"regulation", "ethics", "safety", "bias", "privacy", "gdpr", "ai act">>,
      research_models |-> <<"transformer", "llm", "foundation model", "multimodal", "reasoning">>,
      robotics_automation |-> <<"robotics", "automation", "industrial", "manufacturing", "ros">>,
      general_ai |-> <<"artificial intelligence", "machine learning", "neural network", "deep learning">> ]

ClusterOrder ==
    << "openai", "deepmind", "humanoids", "tesla_nvidia", "anthropic", "regulation_ethics", "research_models", "robotics_automation", "general_ai" >>

FallbackThreshold == 30     \* 3.0

\* the items the lists are drawn from: str(item.get(field, '')) of the three
\* text fields, and relevance_score where the item has one (commits have none)
ItemUniverse ==
    { [fields |-> <<"OpenAI and DeepMind", "Gemini beats ChatGPT and Bard", "">>,
       has_score |-> TRUE, relevance_score |-> 50],
      [fields |-> <<"OpenAI vs Gemini", "a comparison", "">>,
       has_score |-> TRUE, relevance_score |-> 20],
      [fields |-> <<"Claude, safety and the LLM", "", "">>,
       has_score |-> TRUE, relevance_score |-> 40],
      [fields |-> <<"Machine Learning primer", "for beginners", "">>,
       has_score |-> TRUE, relevance_score |-> 20],
      [fields |-> <<"Quantum chips arrive", "faster than expected", "">>,
       has_score |-> TRUE, relevance_score |-> 45],
      [fields |-> <<"Garden notes", "tulips", "">>,
       has_score |-> TRUE, relevance_score |-> 30],
      [fields |-> <<"fix typo", "acme/widgets", "Dana">>,
       has_score |-> FALSE, relevance_score |-> 0],
      [fields |-> <<"Add CUDA kernels", "pytorch/pytorch", "Sam">>,
       has_score |-> FALSE, relevance_score |-> 0] }

ItemLists == UNION {[1..n -> ItemUniverse] : n \in 0..MaxItems}

\* item.get('relevance_score', 0)
GetScoreDefaultHigh(item) == IF item.has_score THEN item.relevance_score ELSE 50
GetScore(item) == IF item.has_score THEN item.relevance_score ELSE 0

\* " ".join([str(item.get(field, '')) for field in text_fields]).lower()
FullText(item) == Lower(Join(item.fields))

\* sum(1 for keyword in cluster_info['keywords'] if keyword in full_text)
MatchCount(cluster_id, full_text) ==
    Cardinality({i \in DOMAIN topic_clusters[cluster_id] :
                    Contains(topic_clusters[cluster_id][i], full_text)})

\* if matches > max_matches
BetterOrEqual(matches, max_matches) == matches >= max_matches
Better(matches, max_matches) == matches > max_matches

\* the loop over self.topic_clusters.items(), from the k-th cluster on
RECURSIVE ScanClusters(_, _, _, _)
ScanClusters(k, full_text, best_cluster, max_matches) ==
    IF k > Len(ClusterOrder)
    THEN [best_cluster |-> best_cluster, max_matches |-> max_matches]
    ELSE LET matches == MatchCount(ClusterOrder[k], full_text)
         IN  IF Better(matches, max_matches)
             THEN ScanClusters(k + 1, full_text, ClusterOrder[k], matches)
             ELSE ScanClusters(k + 1, full_text, best_cluster, max_matches)

\* best_cluster = None; max_matches = 0; then the loop
BestCluster(full_text) == ScanClusters(1, full_text, "", 0)

EmptyDict == [c \in {} |-> <<>>]

\* clusters[key].append(pos) on a defaultdict(list)
DictAppend(d, key, pos) ==
    [c \in DOMAIN d \cup {key} |->
        IF c = key THEN (IF key \in DOMAIN d THEN Append(d[key], pos) ELSE <<pos>>)
        ELSE d[c]]

\* clusters[key] = value
DictSet(d, key, value) ==
    [c \in DOMAIN d \cup {key} |-> IF c = key THEN value ELSE d[c]]

\* [item for item in unclustered if item.get('relevance_score', 0) > 3.0]
HighRelevanceOfAllItems(uncl, its) ==
    SelectSeq([p \in DOMAIN its |-> p],
              LAMBDA pos : GetScore(its[pos]) > FallbackThreshold)
HighRelevance(uncl, its) ==
    SelectSeq(uncl, LAMBDA pos : GetScore(its[pos]) > FallbackThreshold)

InitCluster ==
    /\ items \in ItemLists
    /\ cl_pc = IF items = <<>> THEN "fallback" ELSE "loop"
    /\ cl_idx = 1
    /\ clusters = EmptyDict
    /\ unclustered = <<>>
    /\ best_of = <<>>
    /\ github_status = "none"

\* one pass of "for item in items"
ClusterItem ==
    /\ cl_pc = "loop"
    /\ LET found == BestCluster(FullText(items[cl_idx]))
       IN  /\ IF found.best_cluster # "" /\ found.max_matches > 0
              THEN /\ clusters' = DictAppend(clusters, found.best_cluster, cl_idx)
                   /\ UNCHANGED unclustered
              ELSE /\ unclustered' = Append(unclustered, cl_idx)
                   /\ UNCHANGED clusters
           /\ best_of' = Append(best_of, found.best_cluster)
    /\ cl_idx' = cl_idx + 1
    /\ cl_pc' = IF cl_idx' > Len(items) THEN "fallback" ELSE "loop"
    /\ UNCHANGED <<items, github_status>>
    /\ UNCHANGED <<rateVars, retryVars, dedupVars, aggVars, runVars, fetchVars, scoreVars, sliceVars, recordVars, commitsVars, netVars>>

\* "if unclustered: ..." and return dict(clusters)
AddUnclustered ==
    /\ cl_pc = "fallback"
    /\ LET high_relevance == HighRelevance(unclustered, items)
       IN  clusters' = IF unclustered # <<>> /\ high_relevance # <<>>
                       THEN DictSet(clusters, "general_ai", high_relevance)
                       ELSE clusters
    /\ cl_pc' = "done"
    /\ UNCHANGED <<items, cl_idx, unclustered, best_of, github_status>>
    /\ UNCHANGED <<rateVars, retryVars, dedupVars, aggVars, runVars, fetchVars, scoreVars, sliceVars, recordVars, commitsVars, netVars>>

\* the 'status' analyze_github_clusters returns for the commits and for what
\* cluster_items_by_topic made of them; no bucket of the dict is empty
AnalyzeGithubStatus(commits, clustered) ==
    IF commits = <<>> THEN "no_data"
    ELSE IF DOMAIN clustered = {} THEN "no_relevant"
    ELSE "success"

\* analyze_github_clusters returns: the items were github_data['commits'],
\* built by get_recent_commits without the key relevance_score
AnalyzeGithubClustersReturns ==
    /\ cl_pc = "done"
    /\ github_status = "none"
    /\ \A i \in DOMAIN items : ~items[i].has_score
    /\ github_status' = AnalyzeGithubStatus(items, clusters)
    /\ UNCHANGED <<items, cl_pc, cl_idx, clusters, unclustered, best_of>>
    /\ UNCHANGED <<rateVars, retryVars, dedupVars, aggVars, runVars, fetchVars, scoreVars, sliceVars, recordVars, commitsVars, netVars>>

(***************************************************************************)
(* NewsMonitor, RSSNewsMonitor and PapersWithCodeMonitor._remove_duplicates *)
(***************************************************************************)
MaxArticles == 3        \* longest list of articles

PrefixLen == 50         \* title_key[:50]

\* the articles and papers the lists are drawn from: the keys 'title' and 'url'
\* (two titles share their first 50 characters; some differ in case and in
\* surrounding white space only; some URLs are missing)
ArticleUniverse ==
    { [title |-> "AI Robots Rise",       url |-> "http://x.io/a"],
      [title |-> " ai robots rise ",     url |-> "http://x.io/b"],
      [title |-> "Chip Wars Begin",      url |-> " HTTP://X.io/a"],
      [title |-> "chip wars begin",      url |-> "http://x.io/c"],
      [title |-> "Robots Rise",          url |-> ""],
      [title |-> "AI Robots Rise Again", url |-> ""],
      [title |-> "Humanoid robot learns to fold laundry in five mins today",
       url |-> "http://x.io/b"],
      [title |-> "Humanoid robot learns to fold laundry in five mins again",
       url |-> ""] }

ArticleLists == UNION {[1..n -> ArticleUniverse] : n \in 0..MaxArticles}

\* list.append(x)
ListPrepend(list, x) == <<x>> \o list
ListAppend(list, x) == Append(list, x)

\* NewsMonitor: title_key = article['title'].lower().strip()
NewsTitleKeyNoLower(article) == Strip(article.title)
NewsTitleKey(article) == Strip(Lower(article.title))

\* NewsMonitor: url_key = article.get('url', '').lower().strip()
NewsUrlKeyNoLower(article) == Strip(article.url)
NewsUrlKey(article) == Strip(Lower(article.url))

\* NewsMonitor: if title_key in seen_titles or (url_key and url_key in seen_urls)
NewsIsExactDuplicateTitleOnly(article, titles, urls) ==
    NewsTitleKey(article) \in titles
NewsIsExactDuplicate(article, titles, urls) ==
    LET title_key == NewsTitleKey(article)
        url_key == NewsUrlKey(article)
    IN  title_key \in titles \/ (url_key # "" /\ url_key \in urls)

\* NewsMonitor: the article is neither skipped as an exact duplicate nor
\* found similar to a title seen
NewsIsNew(article, titles, urls) ==
    LET title_key == NewsTitleKey(article)
        title_prefix == Prefix(title_key, PrefixLen)
        is_similar == \E seen_title \in titles : Contains(title_prefix, seen_title)
    IN  /\ ~NewsIsExactDuplicate(article, titles, urls)
        /\ ~is_similar

\* RSSNewsMonitor: title_key = article['title'].lower().strip()
RssTitleKey(article) == Strip(Lower(article.title))

\* RSSNewsMonitor: url_key = article.get('url', '').lower().strip()
RssUrlKey(article) == Strip(Lower(article.url))

\* RSSNewsMonitor: if title_key in seen_titles or (url_key and url_key in seen_urls)
RssIsExactDuplicate(article, titles, urls) ==
    LET title_key == RssTitleKey(article)
        url_key == RssUrlKey(article)
    IN  title_key \in titles \/ (url_key # "" /\ url_key \in urls)

\* RSSNewsMonitor: the article is neither skipped as an exact duplicate nor
\* found similar to a title seen
RssIsNew(article, titles, urls) ==
    LET title_key == RssTitleKey(article)
        title_prefix == Prefix(title_key, PrefixLen)
        is_similar == \E seen_title \in titles : Contains(title_prefix, seen_title)
    IN  /\ ~RssIsExactDuplicate(article, titles, urls)
        /\ ~is_similar

\* PapersWithCodeMonitor: title_key = paper['title'].lower().strip()
PaperTitleKey(paper) == Strip(Lower(paper.title))

\* PapersWithCodeMonitor: if title_key not in seen_titles
PaperIsNew(paper, titles) == PaperTitleKey(paper) \notin titles

InitDedup ==
    /\ variant \in {"news", "rss", "papers"}
    /\ dd_input \in ArticleLists
    /\ articles = dd_input
    /\ dd_pc = "loop"
    /\ dd_pass = 1
    /\ dd_idx = 1
    /\ seen_titles = {}
    /\ seen_urls = {}
    /\ unique_articles = <<>>
    /\ first_output = <<>>
    /\ verdict = <<>>

\* NewsMonitor._remove_duplicates: one pass of "for article in articles"
NewsRemoveDuplicates ==
    /\ variant = "news"
    /\ dd_pc = "loop"
    /\ dd_idx <= Len(articles)
    /\ LET article == articles[dd_idx]
       IN  IF NewsIsNew(article, seen_titles, seen_urls)
           THEN /\ seen_titles' = seen_titles \cup {NewsTitleKey(article)}
                /\ seen_urls' = IF NewsUrlKey(article) # ""
                                THEN seen_urls \cup {NewsUrlKey(article)}
                                ELSE seen_urls
                /\ unique_articles' = ListAppend(unique_articles, article)
                /\ verdict' = Append(verdict, "accepted")
           ELSE /\ verdict' = Append(verdict,
                                     IF NewsIsExactDuplicate(article, seen_titles, seen_urls)
                                     THEN "exact" ELSE "similar")
                /\ UNCHANGED <<seen_titles, seen_urls, unique_articles>>
    /\ dd_idx' = dd_idx + 1
    /\ UNCHANGED <<variant, dd_pc, dd_pass, articles, dd_input, first_output>>
    /\ UNCHANGED <<rateVars, retryVars, clusterVars, aggVars, runVars, fetchVars, scoreVars, sliceVars, recordVars, commitsVars, netVars>>

\* RSSNewsMonitor._remove_duplicates: one pass of "for article in articles"
RssRemoveDuplicates ==
    /\ variant = "rss"
    /\ dd_pc = "loop"
    /\ dd_idx <= Len(articles)
    /\ LET article == articles[dd_idx]
       IN  IF RssIsNew(article, seen_titles, seen_urls)
           THEN /\ seen_titles' = seen_titles \cup {RssTitleKey(article)}
                /\ seen_urls' = IF RssUrlKey(article) # ""
                                THEN seen_urls \cup {RssUrlKey(article)}
                                ELSE seen_urls
                /\ unique_articles' = ListAppend(unique_articles, article)
                /\ verdict' = Append(verdict, "accepted")
           ELSE /\ verdict' = Append(verdict,
                                     IF RssIsExactDuplicate(article, seen_titles, seen_urls)
                                     THEN "exact" ELSE "similar")
                /\ UNCHANGED <<seen_titles, seen_urls, unique_articles>>
    /\ dd_idx' = dd_idx + 1
    /\ UNCHANGED <<variant, dd_pc, dd_pass, articles, dd_input, first_output>>
    /\ UNCHANGED <<rateVars, retryVars, clusterVars, aggVars, runVars, fetchVars, scoreVars, sliceVars, recordVars, commitsVars, netVars>>

\* PapersWithCodeMonitor._remove_duplicates: one pass of "for paper in papers"
PapersRemoveDuplicates ==
    /\ variant = "papers"
    /\ dd_pc = "loop"
    /\ dd_idx <= Len(articles)
    /\ LET paper == articles[dd_idx]
       IN  IF PaperIsNew(paper, seen_titles)
           THEN /\ seen_titles' = seen_titles \cup {PaperTitleKey(paper)}
                /\ unique_articles' = ListAppend(unique_articles, paper)
                /\ verdict' = Append(verdict, "accepted")
           ELSE /\ verdict' = Append(verdict, "exact")
                /\ UNCHANGED <<seen_titles, unique_articles>>
    /\ dd_idx' = dd_idx + 1
    /\ UNCHANGED <<variant, dd_pc, dd_pass, articles, dd_input, first_output, seen_urls>>
    /\ UNCHANGED <<rateVars, retryVars, clusterVars, aggVars, runVars, fetchVars, scoreVars, sliceVars, recordVars, commitsVars, netVars>>

\* the loop is over: return unique_articles
RemoveDuplicatesReturns ==
    /\ dd_pc = "loop"
    /\ dd_idx > Len(articles)
    /\ dd_pc' = "returned"
    /\ first_output' = IF dd_pass = 1 THEN unique_articles ELSE first_output
    /\ UNCHANGED <<variant, dd_pass, articles, dd_idx, seen_titles, seen_urls,
                   unique_articles, dd_input, verdict>>
    /\ UNCHANGED <<rateVars, retryVars, clusterVars, aggVars, runVars, fetchVars, scoreVars, sliceVars, recordVars, commitsVars, netVars>>

\* _remove_duplicates is called again, on what it returned
RemoveDuplicatesAgain ==
    /\ dd_pc = "returned"
    /\ dd_pass = 1
    /\ articles' = unique_articles
    /\ dd_pass' = 2
    /\ dd_pc' = "loop"
    /\ dd_idx' = 1
    /\ seen_titles' = {}
    /\ seen_urls' = {}
    /\ unique_articles' = <<>>
    /\ verdict' = <<>>
    /\ UNCHANGED <<variant, dd_input, first_output>>
    /\ UNCHANGED <<rateVars, retryVars, clusterVars, aggVars, runVars, fetchVars, scoreVars, sliceVars, recordVars, commitsVars, netVars>>

(***************************************************************************)
(* IntelligentSummarizeAgent.analyze_*_clusters and the merge and ordering  *)
(* of their results by IntelligentEmailAgent and EnhancedEmailAgent         *)
(***************************************************************************)
MaxClusterCommits == 1      \* most commits in one bucket
MaxClusterPapers == 2       \* most papers in one bucket
MaxClusterArticles == 1     \* most articles in one bucket

EnrichMaxArticles == 3      \* enrich_articles_with_content(cluster_articles, max_articles=3)
RawCommits == 3             \* cluster_commits[:3]
RawPapers == 3              \* cluster_papers[:3]
RawArticles == 2            \* enriched_articles[:2]

\* activity_thresholds
HighGithub == 8
HighPapers == 4
HighNews == 6
MediumGithub == 4
MediumPapers == 2
MediumNews == 3

\* the cluster ids the buckets are keyed by
AggClusterIds == {"openai", "general_ai"}

\* the three keys of a merged record, in the order they are read
SourceKinds == <<"github", "papers", "news">>

CommitBuckets == {[i \in 1..n |-> [sha |-> i]] : n \in 1..MaxClusterCommits}
PaperBuckets == {[i \in 1..n |-> [paper |-> i]] : n \in 1..MaxClusterPapers}

\* articles: the keys 'url' and 'relevance_score' (in tenths)
ArticleKinds ==
    { [url |-> "http://x.io/a", relevance_score |-> 30],
      [url |-> "",              relevance_score |-> 45] }
ArticleBuckets == UNION {[1..n -> ArticleKinds] : n \in 1..MaxClusterArticles}

\* what cluster_items_by_topic can return: a dict, in insertion order, from
\* cluster ids to non-empty lists
ClusteredDicts(buckets) ==
    { d \in UNION {[1..n -> [cluster_id : AggClusterIds, items : buckets]]
                     : n \in 0..Cardinality(AggClusterIds)} :
        \A i, j \in DOMAIN d : i # j => d[i].cluster_id # d[j].cluster_id }

\* seq[:n]
Take(seq, n) == SubSeq(seq, 1, Min(n, Len(seq)))

\* the position in sorted(..., reverse=True) of the element at position i,
\* keys being the sequence of the elements' keys: the sort is stable
SortedPosition(keys, i) ==
    1 + Cardinality({j \in DOMAIN keys :
                        keys[j] > keys[i] \/ (keys[j] = keys[i] /\ j < i)})

\* sorted(seq, key=..., reverse=True), keys being the sequence of the keys
SortedReverse(seq, keys) ==
    [p \in DOMAIN seq |-> seq[CHOOSE i \in DOMAIN seq : SortedPosition(keys, i) = p]]

\* enrich_articles_with_content: the top max_articles by relevance_score,
\* those without a URL skipped; an article is kept whether or not the
\* extraction of its content succeeds
EnrichArticlesWithContent(cluster_articles, max_articles) ==
    LET keys == [i \in DOMAIN cluster_articles |-> cluster_articles[i].relevance_score]
        sorted_articles == Take(SortedReverse(cluster_articles, keys), max_articles)
    IN  SelectSeq(sorted_articles, LAMBDA article : article.url # "")

\* analyze_github_clusters: analysis_results, in insertion order
GithubAnalysisResults(clustered) ==
    LET kept == SelectSeq(clustered, LAMBDA e : ~(Len(e.items) < 1))
    IN  [i \in DOMAIN kept |->
            [cluster_id |-> kept[i].cluster_id,
             data |-> [commit_count |-> Len(kept[i].items),
                       raw_commits |-> Take(kept[i].items, RawCommits)]]]

\* analyze_paper_clusters: analysis_results, in insertion order
PaperAnalysisResults(clustered) ==
    LET kept == SelectSeq(clustered, LAMBDA e : ~(Len(e.items) < 1))
    IN  [i \in DOMAIN kept |->
            [cluster_id |-> kept[i].cluster_id,
             data |-> [paper_count |-> Len(kept[i].items),
                       raw_papers |-> Take(kept[i].items, RawPapers)]]]

\* analyze_news_clusters: analysis_results, in insertion order; a cluster none
\* of whose articles is enriched is skipped
NewsAnalysisResults(clustered) ==
    LET kept == SelectSeq(clustered, LAMBDA e :
                    /\ ~(Len(e.items) < 1)
                    /\ EnrichArticlesWithContent(e.items, EnrichMaxArticles) # <<>>)
    IN  [i \in DOMAIN kept |->
            [cluster_id |-> kept[i].cluster_id,
             data |-> [article_count |-> Len(kept[i].items),
                       raw_articles |->
                           Take(EnrichArticlesWithContent(kept[i].items, EnrichMaxArticles),
                                RawArticles)]]]

\* the dict an analyze_* method returns
AnalysisOf(clustered, results, empty_status) ==
    IF clustered = <<>>
    THEN [status |-> empty_status, clusters |-> <<>>]
    ELSE [status |-> "success", clusters |-> results]

\* a sub-record of a merged record is <<>> for None and <<data>> otherwise
\* (the keys activity_level and urgency are the enhanced agent's)
NewClusterRecordWithPlaceholders(cluster_id, kind, data) ==
    [cluster_id |-> cluster_id,
     github |-> IF kind = "github" THEN <<data>>
                ELSE <<[commit_count |-> 0, raw_commits |-> <<>>]>>,
     papers |-> IF kind = "papers" THEN <<data>>
                ELSE <<[paper_count |-> 0, raw_papers |-> <<>>]>>,
     news   |-> IF kind = "news" THEN <<data>>
                ELSE <<[article_count |-> 0, raw_articles |-> <<>>]>>,
     activity_level |-> "low",
     urgency |-> "low"]
NewClusterRecord(cluster_id, kind, data) ==
    [cluster_id |-> cluster_id,
     github |-> IF kind = "github" THEN <<data>> ELSE <<>>,
     papers |-> IF kind = "papers" THEN <<data>> ELSE <<>>,
     news   |-> IF kind = "news" THEN <<data>> ELSE <<>>,
     activity_level |-> "low",
     urgency |-> "low"]

\* all_clusters[cluster_id][kind] = cluster_data
SetSubRecord(record, kind, data) ==
    IF kind = "github" THEN [record EXCEPT !.github = <<data>>]
    ELSE IF kind = "papers" THEN [record EXCEPT !.papers = <<data>>]
    ELSE [record EXCEPT !.news = <<data>>]

HasCluster(all, cluster_id) == \E i \in DOMAIN all : all[i].cluster_id = cluster_id

\* one pass of "for cluster_id, cluster_data in ...items()"; the GitHub loop
\* of IntelligentEmailAgent has no else branch
AddCluster(all, entry, kind, overwrite) ==
    IF ~HasCluster(all, entry.cluster_id)
    THEN Append(all, NewClusterRecord(entry.cluster_id, kind, entry.data))
    ELSE IF overwrite
    THEN [i \in DOMAIN all |->
            IF all[i].cluster_id = entry.cluster_id
            THEN SetSubRecord(all[i], kind, entry.data)
            ELSE all[i]]
    ELSE all

RECURSIVE AddClusters(_, _, _, _)
AddClusters(all, entries, kind, overwrite) ==
    IF entries = <<>> THEN all
    ELSE AddClusters(AddCluster(all, Head(entries), kind, overwrite),
                     Tail(entries), kind, overwrite)

\* if analysis.get('status') == 'success': for ... in analysis.get('clusters', {}).items()
AddAnalysis(all, analysis, kind, overwrite) ==
    IF analysis.status = "success"
    THEN AddClusters(all, analysis.clusters, kind, overwrite)
    ELSE all

\* sum(1 for v in [github, papers, news] if v is not None)
SourceCount(record) ==
    (IF record.github # <<>> THEN 1 ELSE 0)
    + (IF record.papers # <<>> THEN 1 ELSE 0)
    + (IF record.news # <<>> THEN 1 ELSE 0)

\* _calculate_activity_level
CalculateActivityLevel(record) ==
    LET github_count == IF record.github # <<>> THEN record.github[1].commit_count ELSE 0
        papers_count == IF record.papers # <<>> THEN record.papers[1].paper_count ELSE 0
        news_count == IF record.news # <<>> THEN record.news[1].article_count ELSE 0
    IN  IF github_count >= HighGithub \/ papers_count >= HighPapers \/ news_count >= HighNews
        THEN "high"
        ELSE IF \/ github_count >= MediumGithub
                \/ papers_count >= MediumPapers
                \/ news_count >= MediumNews
        THEN "medium"
        ELSE "low"

\* what _assess_urgency can return: it reads the text of the analyses
UrgencyLevels == {"breaking", "high", "medium", "low"}

BoolInt(b) == IF b THEN 1 ELSE 0

\* the key of _build_enhanced_cluster_content: a tuple of four booleans and
\* the source count (at most 3), compared lexicographically
EnhancedKey(record) ==
    (((BoolInt(record.urgency = "breaking") * 2
        + BoolInt(record.urgency = "high")) * 2
        + BoolInt(record.activity_level = "high")) * 2
        + BoolInt(record.activity_level = "medium")) * 4
    + SourceCount(record)

AggOff ==
    /\ ag_pc = "off"
    /\ agent = "none"
    /\ clustered_commits = <<>>
    /\ clustered_papers = <<>>
    /\ clustered_articles = <<>>
    /\ github_analysis = [status |-> "none", clusters |-> <<>>]
    /\ papers_analysis = [status |-> "none", clusters |-> <<>>]
    /\ news_analysis = [status |-> "none", clusters |-> <<>>]
    /\ all_clusters = <<>>
    /\ sorted_clusters = <<>>

\* create_intelligent_digest is entered
InitAgg ==
    /\ ag_pc = "github"
    /\ agent = "none"
    /\ clustered_commits = <<>>
    /\ clustered_papers = <<>>
    /\ clustered_articles = <<>>
    /\ github_analysis = [status |-> "none", clusters |-> <<>>]
    /\ papers_analysis = [status |-> "none", clusters |-> <<>>]
    /\ news_analysis = [status |-> "none", clusters |-> <<>>]
    /\ all_clusters = <<>>
    /\ sorted_clusters = <<>>

\* analyze_github_clusters, from what cluster_items_by_topic returned
AnalyzeGithubClusters ==
    /\ ag_pc = "github"
    /\ \E clustered \in ClusteredDicts(CommitBuckets),
          empty_status \in {"no_data", "no_relevant"} :
          /\ clustered_commits' = clustered
          /\ github_analysis' =
                AnalysisOf(clustered, GithubAnalysisResults(clustered), empty_status)
    /\ ag_pc' = "papers"
    /\ UNCHANGED <<agent, clustered_papers, clustered_articles, papers_analysis,
                   news_analysis, all_clusters, sorted_clusters>>
    /\ UNCHANGED <<rateVars, retryVars, clusterVars, dedupVars, runVars, fetchVars, scoreVars, sliceVars, recordVars, commitsVars, netVars>>

\* analyze_paper_clusters, from what cluster_items_by_topic returned
AnalyzePaperClusters ==
    /\ ag_pc = "papers"
    /\ \E clustered \in ClusteredDicts(PaperBuckets),
          empty_status \in {"no_data", "no_relevant", "no_clusters"} :
          /\ clustered_papers' = clustered
          /\ papers_analysis' =
                AnalysisOf(clustered, PaperAnalysisResults(clustered), empty_status)
    /\ ag_pc' = "news"
    /\ UNCHANGED <<agent, clustered_commits, clustered_articles, github_analysis,
                   news_analysis, all_clusters, sorted_clusters>>
    /\ UNCHANGED <<rateVars, retryVars, clusterVars, dedupVars, runVars, fetchVars, scoreVars, sliceVars, recordVars, commitsVars, netVars>>

\* analyze_news_clusters, from what cluster_items_by_topic returned
AnalyzeNewsClusters ==
    /\ ag_pc = "news"
    /\ \E clustered \in ClusteredDicts(ArticleBuckets),
          empty_status \in {"no_data", "no_clusters"} :
          /\ clustered_articles' = clustered
          /\ news_analysis' =
                AnalysisOf(clustered, NewsAnalysisResults(clustered), empty_status)
    /\ ag_pc' = "merge"
    /\ UNCHANGED <<agent, clustered_commits, clustered_papers, github_analysis,
                   papers_analysis, all_clusters, sorted_clusters>>
    /\ UNCHANGED <<rateVars, retryVars, clusterVars, dedupVars, runVars, fetchVars, scoreVars, sliceVars, recordVars, commitsVars, netVars>>

\* IntelligentEmailAgent.create_intelligent_email_content: all_clusters
CreateIntelligentEmailContent ==
    /\ ag_pc = "merge"
    /\ agent' = "intelligent"
    /\ all_clusters' =
          AddAnalysis(
              AddAnalysis(
                  AddAnalysis(<<>>, github_analysis, "github", FALSE),
                  papers_analysis, "papers", TRUE),
              news_analysis, "news", TRUE)
    /\ ag_pc' = "merged"
    /\ UNCHANGED <<clustered_commits, clustered_papers, clustered_articles,
                   github_analysis, papers_analysis, news_analysis, sorted_clusters>>
    /\ UNCHANGED <<rateVars, retryVars, clusterVars, dedupVars, runVars, fetchVars, scoreVars, sliceVars, recordVars, commitsVars, netVars>>

\* EnhancedEmailAgent._collect_and_enrich_clusters
CollectAndEnrichClusters ==
    /\ ag_pc = "merge"
    /\ agent' = "enhanced"
    /\ LET collected ==
              AddAnalysis(
                  AddAnalysis(
                      AddAnalysis(<<>>, github_analysis, "github", TRUE),
                      papers_analysis, "papers", TRUE),
                  news_analysis, "news", TRUE)
       IN  \E urgency \in [DOMAIN collected -> UrgencyLevels] :
              all_clusters' =
                  [i \in DOMAIN collected |->
                      [collected[i] EXCEPT
                          !.activity_level = CalculateActivityLevel(collected[i]),
                          !.urgency = urgency[i]]]
    /\ ag_pc' = "merged"
    /\ UNCHANGED <<clustered_commits, clustered_papers, clustered_articles,
                   github_analysis, papers_analysis, news_analysis, sorted_clusters>>
    /\ UNCHANGED <<rateVars, retryVars, clusterVars, dedupVars, runVars, fetchVars, scoreVars, sliceVars, recordVars, commitsVars, netVars>>

\* IntelligentEmailAgent._build_dynamic_content: sorted_clusters
BuildDynamicContent ==
    /\ ag_pc = "merged"
    /\ agent = "intelligent"
    /\ sorted_clusters' =
          IF all_clusters = <<>> THEN <<>>
          ELSE SortedReverse(all_clusters,
                             [i \in DOMAIN all_clusters |-> SourceCount(all_clusters[i])])
    /\ ag_pc' = "built"
    /\ UNCHANGED <<agent, clustered_commits, clustered_papers, clustered_articles,
                   github_analysis, papers_analysis, news_analysis, all_clusters>>
    /\ UNCHANGED <<rateVars, retryVars, clusterVars, dedupVars, runVars, fetchVars, scoreVars, sliceVars, recordVars, commitsVars, netVars>>

\* EnhancedEmailAgent._build_enhanced_cluster_content: sorted_clusters
BuildEnhancedClusterContent ==
    /\ ag_pc = "merged"
    /\ agent = "enhanced"
    /\ sorted_clusters' =
          IF all_clusters = <<>> THEN <<>>
          ELSE SortedReverse(all_clusters,
                             [i \in DOMAIN all_clusters |-> EnhancedKey(all_clusters[i])])
    /\ ag_pc' = "built"
    /\ UNCHANGED <<agent, clustered_commits, clustered_papers, clustered_articles,
                   github_analysis, papers_analysis, news_analysis, all_clusters>>
    /\ UNCHANGED <<rateVars, retryVars, clusterVars, dedupVars, runVars, fetchVars, scoreVars, sliceVars, recordVars, commitsVars, netVars>>

(***************************************************************************)
(* main.main: the three collectors run in a ThreadPoolExecutor;             *)
(* SafeDailyDigestScheduler.run_daily_digest: they run one after another    *)
(***************************************************************************)
MaxSourceItems == 1     \* most items a monitor returns

Sources == {"github", "papers", "news"}

\* what a monitor can return: a list of items of its provider
MonitorData(provider) ==
    {[i \in 1..n |-> [via |-> provider, item |-> i]] : n \in 0..MaxSourceItems}

\* the monitor a collector calls first
FirstProvider(w) ==
    IF w = "github" THEN "github" ELSE IF w = "papers" THEN "paperswithcode" ELSE "rss"

\* as_completed is exhausted: every future was yielded
LoopOverAfterFirst(taken_futures) == Len(taken_futures) >= 1
LoopOver(taken_futures) == Len(taken_futures) = Cardinality(Sources)

\* "if x_data is None: x_data = <empty>"; <<>> stands for None, <<data>> for data
OrEmpty(x) == IF x = <<>> THEN <<>> ELSE x[1]

\* any([has_github_data, has_papers_data, has_news_data])
HasAnyData(data) == \E w \in Sources : data[w] # <<>>

RunOff ==
    /\ program = "none"
    /\ run_pc = "off"
    /\ worker = [w \in Sources |-> "off"]
    /\ produced = [w \in Sources |-> <<>>]
    /\ raised = [w \in Sources |-> FALSE]
    /\ future_result = [w \in Sources |-> <<>>]
    /\ taken = <<>>
    /\ x_data = [w \in Sources |-> <<>>]
    /\ digest_input = <<>>
    /\ email_content = "none"
    /\ email_sent = FALSE
    /\ outcome = "none"

\* main() or run_daily_digest() is entered
InitRun ==
    /\ program \in {"main", "scheduler"}
    /\ run_pc = "start"
    /\ worker = [w \in Sources |-> "pending"]
    /\ produced = [w \in Sources |-> <<>>]
    /\ raised = [w \in Sources |-> FALSE]
    /\ future_result = [w \in Sources |-> <<>>]
    /\ taken = <<>>
    /\ x_data = [w \in Sources |-> <<>>]
    /\ digest_input = <<>>
    /\ email_content = "none"
    /\ email_sent = FALSE
    /\ outcome = "none"

\* main: the three executor.submit calls; max_workers=3, so every task starts
SubmitAll ==
    /\ program = "main"
    /\ run_pc = "start"
    /\ worker' = [w \in Sources |-> "running"]
    /\ run_pc' = "collect"
    /\ UNCHANGED <<program, produced, raised, future_result, taken, x_data,
                   digest_input, email_content, email_sent, outcome>>
    /\ UNCHANGED <<rateVars, retryVars, clusterVars, dedupVars, aggVars, fetchVars, scoreVars, sliceVars, recordVars, commitsVars, netVars>>

\* collect_*_data: the monitor returns its data, which the collector returns
MonitorReturns ==
    /\ program = "main"
    /\ \E w \in Sources :
          /\ worker[w] = "running"
          /\ \E data \in MonitorData(FirstProvider(w)) :
                /\ produced' = [produced EXCEPT ![w] = data]
                /\ future_result' = [future_result EXCEPT ![w] = data]
          /\ worker' = [worker EXCEPT ![w] = "done"]
    /\ UNCHANGED <<program, run_pc, raised, taken, x_data, digest_input,
                   email_content, email_sent, outcome>>
    /\ UNCHANGED <<rateVars, retryVars, clusterVars, dedupVars, aggVars, fetchVars, scoreVars, sliceVars, recordVars, commitsVars, netVars>>

\* collect_github_data, collect_papers_data: the monitor raises, the collector
\* returns its empty value
MonitorRaises ==
    /\ program = "main"
    /\ \E w \in {"github", "papers"} :
          /\ worker[w] = "running"
          /\ raised' = [raised EXCEPT ![w] = TRUE]
          /\ future_result' = [future_result EXCEPT ![w] = <<>>]
          /\ worker' = [worker EXCEPT ![w] = "done"]
    /\ UNCHANGED <<program, run_pc, produced, taken, x_data, digest_input,
                   email_content, email_sent, outcome>>
    /\ UNCHANGED <<rateVars, retryVars, clusterVars, dedupVars, aggVars, fetchVars, scoreVars, sliceVars, recordVars, commitsVars, netVars>>

\* collect_news_data: RSSNewsMonitor raises, the collector turns to NewsMonitor
RssMonitorRaises ==
    /\ program = "main"
    /\ worker["news"] = "running"
    /\ worker' = [worker EXCEPT !["news"] = "fallback"]
    /\ UNCHANGED <<program, run_pc, produced, raised, future_result, taken, x_data,
                   digest_input, email_content, email_sent, outcome>>
    /\ UNCHANGED <<rateVars, retryVars, clusterVars, dedupVars, aggVars, fetchVars, scoreVars, sliceVars, recordVars, commitsVars, netVars>>

\* collect_news_data: NewsMonitor returns its data
FallbackMonitorReturns ==
    /\ program = "main"
    /\ worker["news"] = "fallback"
    /\ \E data \in MonitorData("newsapi") :
          /\ produced' = [produced EXCEPT !["news"] = data]
          /\ future_result' = [future_result EXCEPT !["news"] = data]
    /\ worker' = [worker EXCEPT !["news"] = "done"]
    /\ UNCHANGED <<program, run_pc, raised, taken, x_data, digest_input,
                   email_content, email_sent, outcome>>
    /\ UNCHANGED <<rateVars, retryVars, clusterVars, dedupVars, aggVars, fetchVars, scoreVars, sliceVars, recordVars, commitsVars, netVars>>

\* collect_news_data: NewsMonitor raises too, the collector returns []
FallbackMonitorRaises ==
    /\ program = "main"
    /\ worker["news"] = "fallback"
    /\ raised' = [raised EXCEPT !["news"] = TRUE]
    /\ future_result' = [future_result EXCEPT !["news"] = <<>>]
    /\ worker' = [worker EXCEPT !["news"] = "done"]
    /\ UNCHANGED <<program, run_pc, produced, taken, x_data, digest_input,
                   email_content, email_sent, outcome>>
    /\ UNCHANGED <<rateVars, retryVars, clusterVars, dedupVars, aggVars, fetchVars, scoreVars, sliceVars, recordVars, commitsVars, netVars>>

\* main: one pass of "for future in as_completed(...)": a finished future
\* that was not yielded yet is yielded and its result stored
TakeCompleted ==
    /\ program = "main"
    /\ run_pc = "collect"
    /\ ~LoopOver(taken)
    /\ \E w \in Sources :
          /\ worker[w] = "done"
          /\ \A i \in DOMAIN taken : taken[i] # w
          /\ taken' = Append(taken, w)
          /\ x_data' = [x_data EXCEPT ![w] = <<future_result[w]>>]
    /\ UNCHANGED <<program, run_pc, worker, produced, raised, future_result,
                   digest_input, email_content, email_sent, outcome>>
    /\ UNCHANGED <<rateVars, retryVars, clusterVars, dedupVars, aggVars, fetchVars, scoreVars, sliceVars, recordVars, commitsVars, netVars>>

\* main: the loop is over; None is replaced by the empty value and the data
\* validated: without any item the run returns
ValidateData ==
    /\ program = "main"
    /\ run_pc = "collect"
    /\ LoopOver(taken)
    /\ LET data == [w \in Sources |-> OrEmpty(x_data[w])]
       IN  /\ x_data' = [w \in Sources |-> <<data[w]>>]
           /\ IF ~HasAnyData(data)
              THEN /\ run_pc' = "done"
                   /\ outcome' = "no_data"
              ELSE /\ run_pc' = "digest"
                   /\ outcome' = outcome
    /\ UNCHANGED <<program, worker, produced, raised, future_result, taken,
                   digest_input, email_content, email_sent>>
    /\ UNCHANGED <<rateVars, retryVars, clusterVars, dedupVars, aggVars, fetchVars, scoreVars, sliceVars, recordVars, commitsVars, netVars>>

\* main: create_intelligent_digest and create_intelligent_email_content are
\* called on the data; the email agent returns the digest or, on an error of
\* its own, its fallback page; an exception of the block is logged
GenerateDigest ==
    /\ program = "main"
    /\ run_pc = "digest"
    /\ \E result \in {"digest", "fallback_content", "raised"} :
          IF result = "raised"
          THEN /\ run_pc' = "done"
               /\ outcome' = "digest_failed"
               /\ UNCHANGED <<digest_input, email_content>>
          ELSE /\ digest_input' = <<[w \in Sources |-> OrEmpty(x_data[w])]>>
               /\ email_content' = result
               /\ run_pc' = "send"
               /\ UNCHANGED outcome
    /\ UNCHANGED <<program, worker, produced, raised, future_result, taken, x_data,
                   email_sent>>
    /\ UNCHANGED <<rateVars, retryVars, clusterVars, dedupVars, aggVars, fetchVars, scoreVars, sliceVars, recordVars, commitsVars, netVars>>

\* main: email_sender.send_digest(email_content)
SendDigest ==
    /\ program = "main"
    /\ run_pc = "send"
    /\ \E success \in BOOLEAN :
          /\ email_sent' = success
          /\ outcome' = IF success THEN "sent" ELSE "send_failed"
    /\ run_pc' = "done"
    /\ UNCHANGED <<program, worker, produced, raised, future_result, taken, x_data,
                   digest_input, email_content>>
    /\ UNCHANGED <<rateVars, retryVars, clusterVars, dedupVars, aggVars, fetchVars, scoreVars, sliceVars, recordVars, commitsVars, netVars>>

\* SafeDailyDigestScheduler.collect_fresh_data: the three monitors are called
\* in turn, each in a try block of its own; with no item at all the result is
\* get_fallback_data(), which is empty too
CollectFreshData ==
    /\ program = "scheduler"
    /\ run_pc = "start"
    /\ \E fails \in SUBSET Sources :
       \E data \in [Sources -> UNION {MonitorData(p) : p \in {"github", "paperswithcode", "newsapi"}}] :
          /\ \A w \in Sources :
                data[w] \in MonitorData(IF w = "news" THEN "newsapi" ELSE FirstProvider(w))
          /\ \A w \in fails : data[w] = <<>>
          /\ raised' = [w \in Sources |-> w \in fails]
          /\ produced' = data
          /\ x_data' = [w \in Sources |-> <<data[w]>>]
    /\ worker' = [w \in Sources |-> "done"]
    /\ run_pc' = "digest"
    /\ UNCHANGED <<program, future_result, taken, digest_input, email_content,
                   email_sent, outcome>>
    /\ UNCHANGED <<rateVars, retryVars, clusterVars, dedupVars, aggVars, fetchVars, scoreVars, sliceVars, recordVars, commitsVars, netVars>>

\* SafeDailyDigestScheduler.generate_daily_digest: create_intelligent_digest,
\* then EnhancedEmailAgent.create_enhanced_email_content, which raises
\* ValueError on no data inside its own try block and so returns
\* _create_fallback_content()
GenerateDailyDigest ==
    /\ program = "scheduler"
    /\ run_pc = "digest"
    /\ LET data == [w \in Sources |-> OrEmpty(x_data[w])]
       IN  /\ digest_input' = <<data>>
           /\ IF ~HasAnyData(data)
              THEN email_content' = "fallback_content"
              ELSE email_content' \in {"digest", "fallback_content"}
    /\ run_pc' = "send"
    /\ UNCHANGED <<program, worker, produced, raised, future_result, taken, x_data,
                   email_sent, outcome>>
    /\ UNCHANGED <<rateVars, retryVars, clusterVars, dedupVars, aggVars, fetchVars, scoreVars, sliceVars, recordVars, commitsVars, netVars>>

\* SafeDailyDigestScheduler.run_daily_digest: send_email(digest_content)
SchedulerSendEmail ==
    /\ program = "scheduler"
    /\ run_pc = "send"
    /\ \E success \in BOOLEAN :
          /\ email_sent' = success
          /\ outcome' = IF success THEN "sent" ELSE "send_failed"
    /\ run_pc' = "done"
    /\ UNCHANGED <<program, worker, produced, raised, future_result, taken, x_data,
                   digest_input, email_content>>
    /\ UNCHANGED <<rateVars, retryVars, clusterVars, dedupVars, aggVars, fetchVars, scoreVars, sliceVars, recordVars, commitsVars, netVars>>

(***************************************************************************)
(* The fetch operations of the adapters: GitHubMonitor.get_recent_commits,  *)
(* NewsMonitor.search_news, PapersWithCodeMonitor.search_papers and         *)
(* RSSNewsMonitor.fetch_rss_feed                                            *)
(***************************************************************************)
MaxRecords == 3         \* most records in one response

NewsMaxArticles == 8    \* search_news(keyword, max_articles=8)
PapersPerTopic == 5     \* PAPERS_PER_TOPIC
RssEntriesPerFeed == 5  \* feed.entries[:5]
StatusOk == 200         \* response.status_code != 200
StatusNoContent == 204  \* a status raise_for_status lets through

Adapters == {"github", "news", "papers", "rss"}

\* the records of a response: "ok" is well formed and passes the filters of
\* the adapter, "filtered" is well formed and does not; "missing_field" lacks
\* a key the adapter reads ('sha', 'commit', 'title'), "null_field" has None
\* for it, "not_a_record" is no dict at all (None, a string)
RecordKinds == {"ok", "filtered", "missing_field", "null_field", "not_a_record"}
MalformedKinds == {"missing_field", "null_field", "not_a_record"}

\* what the request of an adapter can end in: an exception out of
\* safe_request (requests.get and raise_for_status for the RSS adapter) once
\* the retries are used up, or a response with a status and a body
Responses ==
    { [raises |-> TRUE, status_code |-> 0, body |-> "none", records |-> <<>>] }
    \cup
    { [raises |-> FALSE, status_code |-> s, body |-> b, records |-> <<>>] :
        s \in {StatusOk, StatusNoContent}, b \in {"not_json", "wrong_shape"} }
    \cup
    { [raises |-> FALSE, status_code |-> s, body |-> "records", records |-> r] :
        s \in {StatusOk, StatusNoContent},
        r \in UNION {[1..n -> RecordKinds] : n \in 0..MaxRecords} }

\* the except clause around the body of the fetch operation
OnExceptionPropagate(a) == "raise"
OnException(a) == "return_empty"

\* what the body of the loop does with one record: "append", "skip" or "raise"
\*   get_recent_commits subscripts the commit and filters nothing;
\*   _process_article reads with .get(...) or '' and is not guarded itself;
\*   _parse_paper_data and _process_rss_entry catch every exception
ProcessRecord(a, kind) ==
    IF a = "github"
    THEN IF kind \in {"ok", "filtered"} THEN "append" ELSE "raise"
    ELSE IF a = "news"
    THEN IF kind = "ok" THEN "append"
         ELSE IF kind = "not_a_record" THEN "raise"
         ELSE "skip"
    ELSE IF kind = "ok" THEN "append" ELSE "skip"

\* the records the for loop goes over
LoopRecords(a, records) ==
    IF a = "papers" THEN Take(records, PapersPerTopic * 2)
    ELSE IF a = "rss" THEN Take(records, RssEntriesPerFeed)
    ELSE records

\* "if len(...) >= max: break" of search_news and search_papers
LoopBreaks(a, list) ==
    \/ a = "news" /\ Len(list) >= NewsMaxArticles
    \/ a = "papers" /\ Len(list) >= PapersPerTopic

\* what happens between the request and the loop: "raise", "return_empty"
\* or "loop"
BeforeLoop(a, resp) ==
    IF resp.raises THEN "raise"
    ELSE IF a \in {"news", "papers"} /\ resp.status_code # StatusOk THEN "return_empty"
    ELSE IF resp.body = "records"
    THEN IF a = "rss" /\ resp.records = <<>> THEN "return_empty" ELSE "loop"
    ELSE IF a = "rss" THEN "return_empty"
    ELSE "raise"

FetchOff ==
    /\ adapter = "none"
    /\ fetch_pc = "off"
    /\ response = [raises |-> FALSE, status_code |-> 0, body |-> "none", records |-> <<>>]
    /\ loop_records = <<>>
    /\ f_idx = 1
    /\ processed = <<>>
    /\ fetch_result = [raised |-> FALSE, list |-> <<>>]

\* the fetch operation of an adapter is called
InitFetch ==
    /\ adapter \in Adapters
    /\ fetch_pc = "request"
    /\ response = [raises |-> FALSE, status_code |-> 0, body |-> "none", records |-> <<>>]
    /\ loop_records = <<>>
    /\ f_idx = 1
    /\ processed = <<>>
    /\ fetch_result = [raised |-> FALSE, list |-> <<>>]

\* an exception in the try block reaches the except clause
Excepted(a) ==
    IF OnException(a) = "raise"
    THEN [raised |-> TRUE, list |-> <<>>]
    ELSE [raised |-> FALSE, list |-> <<>>]

\* the request is made and its result read, up to the for loop
Request ==
    /\ fetch_pc = "request"
    /\ \E resp \in Responses :
          /\ response' = resp
          /\ IF BeforeLoop(adapter, resp) = "loop"
             THEN /\ fetch_pc' = "loop"
                  /\ loop_records' = LoopRecords(adapter, resp.records)
                  /\ UNCHANGED fetch_result
             ELSE /\ fetch_pc' = "done"
                  /\ loop_records' = <<>>
                  /\ fetch_result' =
                        IF BeforeLoop(adapter, resp) = "raise"
                        THEN Excepted(adapter)
                        ELSE [raised |-> FALSE, list |-> <<>>]
    /\ UNCHANGED <<adapter, f_idx, processed>>
    /\ UNCHANGED <<rateVars, retryVars, clusterVars, dedupVars, aggVars, runVars, scoreVars, sliceVars, recordVars, commitsVars, netVars>>

\* one pass of the for loop over the records; an exception ends the fetch in
\* the except clause
FetchRecord ==
    /\ fetch_pc = "loop"
    /\ f_idx <= Len(loop_records)
    /\ LET todo == ProcessRecord(adapter, loop_records[f_idx])
       IN  IF todo = "raise"
           THEN /\ fetch_pc' = "done"
                /\ fetch_result' = Excepted(adapter)
                /\ UNCHANGED <<processed, f_idx>>
           ELSE /\ processed' = IF todo = "append"
                                THEN Append(processed, f_idx)
                                ELSE processed
                /\ IF todo = "append" /\ LoopBreaks(adapter, processed')
                   THEN /\ fetch_pc' = "done"
                        /\ fetch_result' = [raised |-> FALSE, list |-> processed']
                        /\ UNCHANGED f_idx
                   ELSE /\ f_idx' = f_idx + 1
                        /\ UNCHANGED <<fetch_pc, fetch_result>>
    /\ UNCHANGED <<adapter, response, loop_records>>
    /\ UNCHANGED <<rateVars, retryVars, clusterVars, dedupVars, aggVars, runVars, scoreVars, sliceVars, recordVars, commitsVars, netVars>>

\* the for loop is over: the list is returned
FetchReturns ==
    /\ fetch_pc = "loop"
    /\ f_idx > Len(loop_records)
    /\ fetch_pc' = "done"
    /\ fetch_result' = [raised |-> FALSE, list |-> processed]
    /\ UNCHANGED <<adapter, response, loop_records, f_idx, processed>>
    /\ UNCHANGED <<rateVars, retryVars, clusterVars, dedupVars, aggVars, runVars, scoreVars, sliceVars, recordVars, commitsVars, netVars>>

(***************************************************************************)
(* The relevance scorers: NewsMonitor._calculate_relevance_score,           *)
(* RSSNewsMonitor._calculate_relevance_score and                            *)
(* PapersWithCodeMonitor._calculate_relevance.  Scores are in tenths.       *)
(***************************************************************************)
MaxScoreCalls == 2      \* most calls of the scorers in one behaviour

\* sum(1 for term in terms if term in text)
TermCount(terms, text) ==
    Cardinality({i \in DOMAIN terms : Contains(terms[i], text)})

\* for term, weight in table.items(): if term in text: score += weight
RECURSIVE WeightedSum(_, _)
WeightedSum(table, text) ==
    IF table = <<>> THEN 0
    ELSE (IF Contains(Head(table)[1], text) THEN Head(table)[2] ELSE 0)
         + WeightedSum(Tail(table), text)

\* f"{title_lower} {desc_lower}"
ScoreFullText(title, body) == Lower(title) \o " " \o Lower(body)

news_ai_terms ==
    << "artificial intelligence", "machine learning", "deep learning",
       "neural network", "robotics", "automation", "autonomous",
       "ai model", "chatgpt", "llm", "language model", "computer vision",
       "natural language processing", "reinforcement learning" >>

news_important_orgs ==
    << "openai", "deepmind", "anthropic", "google", "meta", "microsoft",
       "tesla", "nvidia", "boston dynamics", "figure", "sanctuary ai" >>

\* min(ai_term_count * 0.3, 1.5)
NewsAiTermScore(ai_term_count) == Min(ai_term_count * 3, 15)

\* min(org_mentions * 0.4, 1.0)
NewsOrgScoreResetOverCap(org_mentions) ==
    IF org_mentions * 4 > 10 THEN 0 ELSE org_mentions * 4
NewsOrgScore(org_mentions) == Min(org_mentions * 4, 10)

\* NewsMonitor._calculate_relevance_score(title, description, keyword)
NewsCalculateRelevanceScore(title, description, keyword) ==
    LET title_lower == Lower(title)
        desc_lower == Lower(description)
        keyword_lower == Lower(keyword)
        full_text == ScoreFullText(title, description)
    IN  (IF Contains(keyword_lower, title_lower) THEN 20 ELSE 0)
        + (IF Contains(keyword_lower, desc_lower) THEN 10 ELSE 0)
        + NewsAiTermScore(TermCount(news_ai_terms, full_text))
        + NewsOrgScore(TermCount(news_important_orgs, full_text))

rss_high_value_terms ==
    << "openai", "chatgpt", "gpt-4", "deepmind", "anthropic", "claude",
       "google ai", "microsoft ai", "nvidia", "tesla", "figure ai",
       "boston dynamics", "sanctuary ai", "humanoid robot" >>

rss_medium_value_terms ==
    << "artificial intelligence", "machine learning", "deep learning",
       "neural network", "robotics", "automation", "computer vision" >>

\* any(term in title_lower for term in high_value_terms + medium_value_terms)
RssTitleBonus(title_lower) ==
    TermCount(rss_high_value_terms \o rss_medium_value_terms, title_lower) > 0

\* RSSNewsMonitor._calculate_relevance_score(title, description)
RssCalculateRelevanceScore(title, description) ==
    LET title_lower == Lower(title)
        full_text == ScoreFullText(title, description)
        score == TermCount(rss_high_value_terms, full_text) * 20
                 + TermCount(rss_medium_value_terms, full_text) * 10
                 + (IF RssTitleBonus(title_lower) THEN 10 ELSE 0)
    IN  Min(score, 50)

high_value_orgs ==
    << <<"deepmind", 30>>, <<"openai", 30>>, <<"anthropic", 25>>, <<"google", 20>>,
       <<"microsoft", 20>>, <<"nvidia", 25>>, <<"tesla", 25>>, <<"meta", 20>>,
       <<"stanford", 20>>, <<"mit", 20>>, <<"berkeley", 20>>, <<"cmu", 20>>,
       <<"boston dynamics", 30>>, <<"sanctuary ai", 30>>, <<"1x technologies", 30>>,
       <<"figure ai", 30>>, <<"autonomous", 20>>, <<"robotics", 20>> >>

top_orgs ==
    << "deepmind", "openai", "anthropic", "google", "meta", "microsoft",
       "stanford", "mit", "berkeley", "carnegie mellon", "cmu",
       "boston dynamics", "sanctuary ai", "1x technologies", "1x",
       "tesla", "nvidia", "fair", "google research", "harvard",
       "princeton", "yale", "caltech", "eth zurich", "toronto",
       "mila", "oxford", "cambridge", "imperial college" >>

high_impact_tasks ==
    << <<"robotics", 30>>, <<"autonomous-driving", 30>>, <<"reinforcement-learning", 25>>,
       <<"language-modeling", 20>>, <<"computer-vision", 15>>, <<"object-detection", 15>>,
       <<"human-pose-estimation", 20>>, <<"natural-language-processing", 20>>,
       <<"machine-translation", 15>>, <<"question-answering", 15>> >>

cutting_edge_methods ==
    << <<"transformer", 20>>, <<"foundation model", 25>>, <<"diffusion", 20>>,
       <<"attention mechanism", 15>>, <<"multimodal", 20>>, <<"few-shot", 15>>,
       <<"zero-shot", 15>>, <<"reinforcement learning", 20>>, <<"neural network", 10>>,
       <<"deep learning", 10>>, <<"gpt", 20>>, <<"bert", 15>>, <<"llama", 20>> >>

advanced_ai_terms ==
    << <<"foundation model", 25>>, <<"large language model", 20>>, <<"multimodal", 20>>,
       <<"embodied ai", 30>>, <<"humanoid", 30>>, <<"autonomous", 20>>,
       <<"policy gradient", 20>>, <<"imitation learning", 20>>, <<"sim-to-real", 25>>,
       <<"robot learning", 30>>, <<"manipulation", 20>>, <<"navigation", 15>>,
       <<"reasoning", 20>>, <<"planning", 15>>, <<"control", 15>> >>

\* PapersWithCodeMonitor._check_top_organization(title, abstract)
CheckTopOrganization(title, abstract) ==
    TermCount(top_orgs, ScoreFullText(title, abstract)) > 0

\* PapersWithCodeMonitor._calculate_relevance(title, abstract, tasks, methods, query)
PapersCalculateRelevance(title, abstract, tasks, methods, query) ==
    LET title_lower == Lower(title)
        abstract_lower == Lower(abstract)
        query_lower == Lower(query)
        full_text == ScoreFullText(title, abstract)
        task_text == Lower(Join(tasks))
        method_text == Lower(Join(methods))
    IN  (IF Contains(query_lower, title_lower) THEN 40 ELSE 0)
        + (IF Contains(query_lower, abstract_lower) THEN 20 ELSE 0)
        + WeightedSum(high_value_orgs, full_text)
        + (IF CheckTopOrganization(title, abstract) THEN 15 ELSE 0)
        + WeightedSum(high_impact_tasks, task_text)
        + WeightedSum(cutting_edge_methods, method_text)
        + WeightedSum(advanced_ai_terms, full_text)

\* the articles the news scorer is called with: (title, description, keyword)
NewsScoreInputs ==
    { <<"Chip prices fall", "", "robotics">>,
      <<"Chip prices fall", "a robotics story", "robotics">>,
      <<"Robotics chip prices fall", "", "robotics">>,
      <<"Google and Meta", "", "chips">>,
      <<"Google and Meta", "Tesla", "chips">>,
      <<"Google and Meta", "Tesla, Nvidia", "chips">>,
      <<"LLM automation", "autonomous ChatGPT; deep learning", "chips">>,
      <<"LLM automation", "autonomous ChatGPT; deep learning robotics", "chips">> }

\* the articles the RSS scorer is called with: (title, description)
RssScoreInputs ==
    { <<"Chip prices fall", "">>,
      <<"Chip prices fall", "robotics">>,
      <<"Robotics chip prices fall", "">>,
      <<"OpenAI and Nvidia", "Tesla">>,
      <<"OpenAI and Nvidia", "Tesla, Claude">> }

\* the papers the paper scorer is called with:
\* (title, abstract, tasks, methods, query)
PaperScoreInputs ==
    { <<"Robot grasping", "", <<>>, <<>>, "grasping">>,
      <<"Robot grasping", "", <<"Robotics">>, <<>>, "grasping">>,
      <<"Robot grasping", "", <<"Robotics">>, <<"Diffusion", "GPT">>, "grasping">>,
      <<"Robot grasping", "from MIT", <<>>, <<>>, "grasping">>,
      <<"Robot grasping", "planning", <<>>, <<>>, "vision">> }

\* one call of a scorer and what it returned
ScoreCall(kind, title, body, tasks, methods, query, score) ==
    [scorer |-> kind, title |-> title, body |-> body, tasks |-> tasks,
     methods |-> methods, query |-> query, score |-> score]

ScoreOff == score_calls = <<>>

\* the monitors are constructed, nothing is scored yet
InitScore == score_calls = <<>>

\* _process_article: relevance_score = self._calculate_relevance_score(title, description, keyword)
NewsScoreArticle ==
    /\ Len(score_calls) < MaxScoreCalls
    /\ \E a \in NewsScoreInputs :
          score_calls' = Append(score_calls,
              ScoreCall("news", a[1], a[2], <<>>, <<>>, a[3],
                        NewsCalculateRelevanceScore(a[1], a[2], a[3])))
    /\ UNCHANGED <<rateVars, retryVars, clusterVars, dedupVars, aggVars, runVars, fetchVars, sliceVars, recordVars, commitsVars, netVars>>

\* _process_rss_entry: relevance_score = self._calculate_relevance_score(title, description)
RssScoreEntry ==
    /\ Len(score_calls) < MaxScoreCalls
    /\ \E a \in RssScoreInputs :
          score_calls' = Append(score_calls,
              ScoreCall("rss", a[1], a[2], <<>>, <<>>, "",
                        RssCalculateRelevanceScore(a[1], a[2])))
    /\ UNCHANGED <<rateVars, retryVars, clusterVars, dedupVars, aggVars, runVars, fetchVars, sliceVars, recordVars, commitsVars, netVars>>

\* _parse_paper_data: relevance_score = self._calculate_relevance(title, abstract, tasks, methods, query)
PaperScorePaper ==
    /\ Len(score_calls) < MaxScoreCalls
    /\ \E a \in PaperScoreInputs :
          score_calls' = Append(score_calls,
              ScoreCall("paper", a[1], a[2], a[3], a[4], a[5],
                        PapersCalculateRelevance(a[1], a[2], a[3], a[4], a[5])))
    /\ UNCHANGED <<rateVars, retryVars, clusterVars, dedupVars, aggVars, runVars, fetchVars, sliceVars, recordVars, commitsVars, netVars>>

(***************************************************************************)
(* The display slice of one cluster bucket: raw_commits, raw_papers and     *)
(* raw_articles of analyze_github_clusters, analyze_paper_clusters and      *)
(* analyze_news_clusters, from the list the monitor handed over             *)
(***************************************************************************)
MaxBucketItems == 4     \* most items of one kind that fall into one bucket

TopPapers == 15             \* unique_papers[:15]
PaperRelevanceCut == 60     \* p.get('relevance_score', 0) >= 6.0

\* the items of one kind that all fall into the same cluster; id is the
\* position in the list the monitor built, commits carry no relevance_score
SliceCommits == {[i \in 1..n |-> [id |-> i, has_score |-> FALSE, relevance_score |-> 0,
                                  has_top_org |-> FALSE, url |-> "http://x.io/c"]]
                    : n \in 0..MaxBucketItems}

SlicePaperKinds == [has_score : {TRUE}, relevance_score : {50, 65, 90},
                    has_top_org : BOOLEAN, url : {"http://x.io/p"}]

SliceArticleKinds == [has_score : {TRUE}, relevance_score : {30, 45},
                      has_top_org : {FALSE}, url : {"", "http://x.io/a"}]

\* the lists over a set of kinds, each item numbered by its position
NumberedLists(kinds) ==
    { [i \in DOMAIN l |-> [id |-> i, has_score |-> l[i].has_score,
                           relevance_score |-> l[i].relevance_score,
                           has_top_org |-> l[i].has_top_org, url |-> l[i].url]]
        : l \in UNION {[1..n -> kinds] : n \in 0..MaxBucketItems} }

\* key=lambda x: (x['has_top_org'], x['relevance_score']), as one integer
\* (scores stay below 1000 tenths)
TopOrgThenScore(paper) == BoolInt(paper.has_top_org) * 1000 + paper.relevance_score

\* monitor_all_keywords: unique_papers.sort(key=..., reverse=True); unique_papers[:15]
SortAndCutPapers(papers) ==
    IF papers = <<>> THEN <<>>
    ELSE Take(SortedReverse(papers, [i \in DOMAIN papers |-> TopOrgThenScore(papers[i])]),
              TopPapers)

\* relevant_papers = [p for p in papers if p.get('relevance_score', 0) >= 6.0]
RelevantPapers(papers) ==
    SelectSeq(papers, LAMBDA p : GetScore(p) >= PaperRelevanceCut)

\* 'raw_papers': cluster_papers[:3]
RawPapersOf(cluster_papers) == Take(cluster_papers, RawPapers)

\* 'raw_commits': cluster_commits[:3]
RawCommitsOf(cluster_commits) == Take(cluster_commits, RawCommits)

\* 'raw_articles': enriched_articles[:2]
RawArticlesOf(cluster_articles) ==
    IF cluster_articles = <<>> THEN <<>>
    ELSE Take(EnrichArticlesWithContent(cluster_articles, EnrichMaxArticles), RawArticles)

SliceOff ==
    /\ slice_pc = "off"
    /\ slice_kind = "none"
    /\ monitor_list = <<>>
    /\ cluster_bucket = <<>>
    /\ raw_slice = <<>>

\* a monitor has built the list of its items
InitSlice ==
    /\ slice_kind \in {"github", "papers", "news"}
    /\ slice_pc = IF slice_kind = "papers" THEN "monitor" ELSE "analyze"
    /\ monitor_list \in IF slice_kind = "github" THEN SliceCommits
                        ELSE IF slice_kind = "papers" THEN NumberedLists(SlicePaperKinds)
                        ELSE NumberedLists(SliceArticleKinds)
    /\ cluster_bucket = <<>>
    /\ raw_slice = <<>>

\* PapersWithCodeMonitor.monitor_all_keywords returns, lines 322-330
PapersMonitorReturns ==
    /\ slice_pc = "monitor"
    /\ slice_kind = "papers"
    /\ monitor_list' = SortAndCutPapers(monitor_list)
    /\ slice_pc' = "analyze"
    /\ UNCHANGED <<slice_kind, cluster_bucket, raw_slice>>
    /\ UNCHANGED <<rateVars, retryVars, clusterVars, dedupVars, aggVars, runVars, fetchVars, scoreVars, recordVars, commitsVars, netVars>>

\* analyze_github_clusters for a list whose commits all fall into one cluster
KeepRawCommits ==
    /\ slice_pc = "analyze"
    /\ slice_kind = "github"
    /\ cluster_bucket' = monitor_list
    /\ raw_slice' = RawCommitsOf(monitor_list)
    /\ slice_pc' = "done"
    /\ UNCHANGED <<slice_kind, monitor_list>>
    /\ UNCHANGED <<rateVars, retryVars, clusterVars, dedupVars, aggVars, runVars, fetchVars, scoreVars, recordVars, commitsVars, netVars>>

\* analyze_paper_clusters for a list whose relevant papers all fall into one
\* cluster
KeepRawPapers ==
    /\ slice_pc = "analyze"
    /\ slice_kind = "papers"
    /\ cluster_bucket' = RelevantPapers(monitor_list)
    /\ raw_slice' = RawPapersOf(RelevantPapers(monitor_list))
    /\ slice_pc' = "done"
    /\ UNCHANGED <<slice_kind, monitor_list>>
    /\ UNCHANGED <<rateVars, retryVars, clusterVars, dedupVars, aggVars, runVars, fetchVars, scoreVars, recordVars, commitsVars, netVars>>

\* analyze_news_clusters for a list whose articles all fall into one cluster
KeepRawArticles ==
    /\ slice_pc = "analyze"
    /\ slice_kind = "news"
    /\ cluster_bucket' = monitor_list
    /\ raw_slice' = RawArticlesOf(monitor_list)
    /\ slice_pc' = "done"
    /\ UNCHANGED <<slice_kind, monitor_list>>
    /\ UNCHANGED <<rateVars, retryVars, clusterVars, dedupVars, aggVars, runVars, fetchVars, scoreVars, recordVars, commitsVars, netVars>>

(***************************************************************************)
(* One record through an adapter: NewsMonitor._process_article and          *)
(* _is_relevant_article, RSSNewsMonitor._process_rss_entry and              *)
(* _is_relevant_article, PapersWithCodeMonitor._parse_paper_data and        *)
(* _is_recent_and_relevant, and the relevance cut of analyze_paper_clusters *)
(* Times are in ticks, scores in tenths.                                    *)
(***************************************************************************)
TicksPerDay == 2        \* resolution of the model's dates
NowDay == 200           \* the day of datetime.now()
MaxDaysFromWindow == 2  \* publication dates lie this close to the 180-day limit

MinTitleLength == 10    \* len(title) < 10
NewsMinRelevance == 3   \* article.get('relevance_score', 0) < 0.3
RssRecentDays == 7      \* timedelta(days=7)
PaperWindowDays == 180  \* timedelta(days=180)
GeneralThreshold == 65  \* relevance_score > 6.5
TopOrgThreshold == 40   \* relevance_score > 4.0
KeywordThreshold == 30  \* return relevance_score > 3.0

RecordAdapters == {"news", "rss", "papers"}

\* the 'published' / 'publishedAt' value of a raw record:
\*   "missing"       no value or ''
\*   "iso"           a timestamp datetime.fromisoformat reads, at tick `at`
\*   "date_prefix"   fromisoformat fails, the first 10 characters are the date
\*   "garbage_long"  no date at all, 10 characters or more
\*   "garbage_short" no date at all, fewer than 10 characters
Published(kind, at) == [kind |-> kind, at |-> at]

PaperPublished ==
    { Published(k, 0) : k \in {"missing", "garbage_long", "garbage_short"} }
    \cup
    { Published(k, (NowDay - PaperWindowDays + d) * TicksPerDay + t) :
        k \in {"iso", "date_prefix"},
        d \in (0 - MaxDaysFromWindow)..MaxDaysFromWindow,
        t \in 0..(TicksPerDay - 1) }

RssPublished ==
    { Published("missing", 0), Published("garbage_long", 0),
      Published("iso", (NowDay - 1) * TicksPerDay),
      Published("iso", (NowDay - RssRecentDays - 1) * TicksPerDay) }

RawRecord(title, body, tasks, methods, query, published) ==
    [title |-> title, body |-> body, tasks |-> tasks, methods |-> methods,
     query |-> query, published |-> published]

\* the articles of a NewsAPI response for the keyword "robotics"
RawArticles_News ==
    { RawRecord(t, b, <<>>, <<>>, "robotics", Published("missing", 0)) :
        t \in {"", "  ", " AI chips ", "Robotics lab opens", "Stock market rallies"},
        b \in {"", "A robotics story", "Shares and trading"} }

\* the entries of a feed
RawEntries_Rss ==
    { RawRecord(t, b, <<>>, <<>>, "", p) :
        t \in {"", "AI chips", "Robotics lab opens", "Garden notes for spring"},
        b \in {"", "<p> </p>", "<p>A robotics story</p>"},
        p \in RssPublished }

\* the texts of the papers of a Papers With Code response:
\* <<title, abstract, tasks, methods, query>>
PaperTexts ==
    { <<"Robot grasping with diffusion", "", <<"Robotics">>, <<"Diffusion">>, "grasping">>,
      <<"Harvard study of grasping", "We study hands.", <<>>, <<>>, "grasping">>,
      <<"Robotics planning survey", "A survey.", <<>>, <<>>, "vision">>,
      <<"A survey of planning", "robotics", <<>>, <<>>, "vision">>,
      <<"Harvard notes on hands", "", <<>>, <<>>, "vision">>,
      <<"Learned navigation for grasping", "We learn.", <<>>, <<"Neural Network">>, "grasping">>,
      <<" Robots ", "Short title.", <<"Robotics">>, <<>>, "robots">> }

RawPapers_Pwc ==
    { RawRecord(x[1], x[2], x[3], x[4], x[5], p) : x \in PaperTexts, p \in PaperPublished }

\* re.sub(r'<[^>]+>', '', text): the text outside the tags
RECURSIVE RemoveTags(_, _)
RemoveTags(s, in_tag) ==
    IF s = "" THEN ""
    ELSE LET c == SubSeq(s, 1, 1)
             rest == SubSeq(s, 2, Len(s))
         IN  IF in_tag
             THEN RemoveTags(rest, c # ">")
             ELSE IF c = "<" /\ Contains(">", rest) /\ SubSeq(rest, 1, 1) # ">"
             THEN RemoveTags(rest, TRUE)
             ELSE c \o RemoveTags(rest, FALSE)

\* _clean_html(text).strip(), for texts without runs of blanks or entities
CleanHtml(text) == IF text = "" THEN "" ELSE Strip(RemoveTags(text, FALSE))

\* "if not title or len(title) < 10: return None"
TitleRejected(title) == title = "" \/ Len(title) < MinTitleLength

AnyTerm(terms, text) == \E i \in DOMAIN terms : Contains(terms[i], text)

news_irrelevant_terms ==
    << "stock price", "market cap", "earnings report", "financial results",
       "share price", "quarterly report", "investor", "dividend",
       "stock market", "trading", "wall street" >>

news_ai_tech_terms ==
    << "artificial intelligence", "machine learning", "robotics", "automation",
       "ai technology" >>

rss_ai_keywords ==
    << "artificial intelligence", "ai", "machine learning", "deep learning",
       "neural network", "robotics", "robot", "automation", "autonomous",
       "chatgpt", "gpt", "llm", "language model", "computer vision",
       "nlp", "natural language", "reinforcement learning", "transformer",
       "openai", "deepmind", "anthropic", "claude", "gemini", "tesla",
       "nvidia", "boston dynamics", "figure", "sanctuary", "humanoid" >>

rss_irrelevant_terms ==
    << "cryptocurrency", "crypto", "blockchain", "nft", "bitcoin",
       "stock price", "market cap", "dividend", "earnings call" >>

paper_high_value_keywords ==
    << "deepmind", "openai", "anthropic", "robotics", "humanoid", "1x" >>

\* the record an adapter builds; published is what the adapter stores:
\* [kind |-> "empty"], [kind |-> "text"] or [kind |-> "date", at |-> tick]
Built(title, body, score, has_top_org, published) ==
    [title |-> title, body |-> body, relevance_score |-> score,
     has_top_org |-> has_top_org, published |-> published]

\* NewsMonitor._process_article: <<>> for None
NewsProcessArticle(article) ==
    LET title == Strip(article.title)
        description == Strip(article.body)
    IN  IF TitleRejected(title) THEN <<>>
        ELSE << Built(title, description,
                      NewsCalculateRelevanceScore(title, description, article.query),
                      FALSE, [kind |-> "empty", at |-> 0]) >>

\* NewsMonitor._is_relevant_article
NewsIsRelevantArticle(article) ==
    LET full_text == ScoreFullText(article.title, article.body)
    IN  IF article.relevance_score < NewsMinRelevance THEN FALSE
        ELSE IF AnyTerm(news_irrelevant_terms, full_text)
                /\ ~AnyTerm(news_ai_tech_terms, full_text)
        THEN FALSE
        ELSE TRUE

\* what _process_rss_entry stores as published_at
RssStoredDate(published) ==
    IF published.kind = "iso" THEN [kind |-> "date", at |-> published.at]
    ELSE IF published.kind = "missing" THEN [kind |-> "empty", at |-> 0]
    ELSE [kind |-> "text", at |-> 0]

\* RSSNewsMonitor._is_recent_article
RssIsRecentArticle(published_at, now_tick) ==
    IF published_at.kind = "empty" THEN TRUE
    ELSE IF published_at.kind = "text" THEN TRUE
    ELSE published_at.at >= now_tick - RssRecentDays * TicksPerDay

\* RSSNewsMonitor._process_rss_entry: <<>> for None
RssProcessEntry(entry, now_tick) ==
    LET title == Strip(entry.title)
        description == CleanHtml(entry.body)
    IN  IF TitleRejected(title) THEN <<>>
        ELSE IF ~RssIsRecentArticle(RssStoredDate(entry.published), now_tick) THEN <<>>
        ELSE << Built(title, description, RssCalculateRelevanceScore(title, description),
                      FALSE, RssStoredDate(entry.published)) >>

\* RSSNewsMonitor._is_relevant_article
RssIsRelevantArticle(article) ==
    LET full_text == ScoreFullText(article.title, article.body)
    IN  IF ~AnyTerm(rss_ai_keywords, full_text) THEN FALSE
        ELSE IF AnyTerm(rss_irrelevant_terms, full_text) THEN FALSE
        ELSE TRUE

\* the published_date of _parse_paper_data: strftime('%Y-%m-%d') keeps the
\* day, and a value fromisoformat cannot read is cut to ten characters
PaperStoredDate(published) ==
    IF published.kind \in {"iso", "date_prefix"}
    THEN [kind |-> "date", at |-> (published.at \div TicksPerDay) * TicksPerDay]
    ELSE IF published.kind = "garbage_long" THEN [kind |-> "text", at |-> 0]
    ELSE [kind |-> "empty", at |-> 0]

\* PapersWithCodeMonitor._parse_paper_data: <<>> for None
ParsePaperData(paper_data) ==
    LET title == Strip(paper_data.title)
        abstract == Strip(paper_data.body)
    IN  IF TitleRejected(title) THEN <<>>
        ELSE << Built(title, abstract,
                      PapersCalculateRelevance(title, abstract, paper_data.tasks,
                                               paper_data.methods, paper_data.query),
                      CheckTopOrganization(title, abstract),
                      PaperStoredDate(paper_data.published)) >>

\* "except: pass" around the parsing of paper['published']
OnDateParseErrorReject(paper) == "return_false"
OnDateParseError(paper) == "pass"

\* the date check of _is_recent_and_relevant: TRUE when it returns False
DateFilterDrops(paper, now_tick) ==
    IF paper.published.kind = "empty" THEN FALSE
    ELSE IF paper.published.kind = "text" THEN OnDateParseError(paper) = "return_false"
    ELSE paper.published.at < now_tick - PaperWindowDays * TicksPerDay

\* the relevance checks of _is_recent_and_relevant
PassesThresholdsWithoutTopOrg(score, has_top_org, title) ==
    IF score > GeneralThreshold THEN TRUE
    ELSE IF AnyTerm(paper_high_value_keywords, Lower(title)) THEN score > KeywordThreshold
    ELSE FALSE
PassesThresholds(score, has_top_org, title) ==
    IF score > GeneralThreshold THEN TRUE
    ELSE IF has_top_org /\ score > TopOrgThreshold THEN TRUE
    ELSE IF AnyTerm(paper_high_value_keywords, Lower(title)) THEN score > KeywordThreshold
    ELSE FALSE

\* PapersWithCodeMonitor._is_recent_and_relevant
IsRecentAndRelevant(paper, now_tick) ==
    IF DateFilterDrops(paper, now_tick) THEN FALSE
    ELSE PassesThresholds(paper.relevance_score, paper.has_top_org, paper.title)

\* analyze_paper_clusters for the list of this one paper: TRUE when the
\* paper is in a bucket of clustered_papers (text_fields title, abstract and
\* keywords, a key the paper does not have)
InPaperBucket(paper) ==
    LET relevant == paper.relevance_score >= PaperRelevanceCut
        found == BestCluster(Lower(Join(<<paper.title, paper.body, "">>)))
    IN  /\ relevant
        /\ \/ found.best_cluster # "" /\ found.max_matches > 0
           \/ paper.relevance_score > FallbackThreshold

RecordOff ==
    /\ rec_adapter = "none"
    /\ rec_pc = "off"
    /\ rec_now = 0
    /\ raw_record = RawRecord("", "", <<>>, <<>>, "", Published("missing", 0))
    /\ built_record = <<>>
    /\ appended = FALSE
    /\ in_paper_bucket = FALSE

\* the loop of a fetch operation reaches a record of the response
InitRecord ==
    /\ rec_adapter \in RecordAdapters
    /\ rec_pc = "process"
    /\ rec_now \in { NowDay * TicksPerDay + t : t \in 0..(TicksPerDay - 1) }
    /\ raw_record \in IF rec_adapter = "news" THEN RawArticles_News
                      ELSE IF rec_adapter = "rss" THEN RawEntries_Rss
                      ELSE RawPapers_Pwc
    /\ built_record = <<>>
    /\ appended = FALSE
    /\ in_paper_bucket = FALSE

\* processed_article = self._process_article(article, keyword)
ProcessArticle ==
    /\ rec_pc = "process"
    /\ rec_adapter = "news"
    /\ built_record' = NewsProcessArticle(raw_record)
    /\ rec_pc' = "filter"
    /\ UNCHANGED <<rec_adapter, rec_now, raw_record, appended, in_paper_bucket>>
    /\ UNCHANGED <<rateVars, retryVars, clusterVars, dedupVars, aggVars, runVars, fetchVars, scoreVars, sliceVars, commitsVars, netVars>>

\* article = self._process_rss_entry(entry, feed_config)
ProcessRssEntry ==
    /\ rec_pc = "process"
    /\ rec_adapter = "rss"
    /\ built_record' = RssProcessEntry(raw_record, rec_now)
    /\ rec_pc' = "filter"
    /\ UNCHANGED <<rec_adapter, rec_now, raw_record, appended, in_paper_bucket>>
    /\ UNCHANGED <<rateVars, retryVars, clusterVars, dedupVars, aggVars, runVars, fetchVars, scoreVars, sliceVars, commitsVars, netVars>>

\* parsed_paper = self._parse_paper_data(paper_data, query)
ParsePaper ==
    /\ rec_pc = "process"
    /\ rec_adapter = "papers"
    /\ built_record' = ParsePaperData(raw_record)
    /\ rec_pc' = "filter"
    /\ UNCHANGED <<rec_adapter, rec_now, raw_record, appended, in_paper_bucket>>
    /\ UNCHANGED <<rateVars, retryVars, clusterVars, dedupVars, aggVars, runVars, fetchVars, scoreVars, sliceVars, commitsVars, netVars>>

\* "if processed and self._is_relevant...(processed): list.append(processed)"
AppendIfRelevant ==
    /\ rec_pc = "filter"
    /\ appended' =
          (/\ built_record # <<>>
           /\ IF rec_adapter = "news" THEN NewsIsRelevantArticle(built_record[1])
              ELSE IF rec_adapter = "rss" THEN RssIsRelevantArticle(built_record[1])
              ELSE IsRecentAndRelevant(built_record[1], rec_now))
    /\ rec_pc' = IF rec_adapter = "papers" /\ appended' THEN "analyze" ELSE "done"
    /\ UNCHANGED <<rec_adapter, rec_now, raw_record, built_record, in_paper_bucket>>
    /\ UNCHANGED <<rateVars, retryVars, clusterVars, dedupVars, aggVars, runVars, fetchVars, scoreVars, sliceVars, commitsVars, netVars>>

\* analyze_paper_clusters on the papers the adapter returned
FilterAndClusterPaper ==
    /\ rec_pc = "analyze"
    /\ in_paper_bucket' = InPaperBucket(built_record[1])
    /\ rec_pc' = "done"
    /\ UNCHANGED <<rec_adapter, rec_now, raw_record, built_record, appended>>
    /\ UNCHANGED <<rateVars, retryVars, clusterVars, dedupVars, aggVars, runVars, fetchVars, scoreVars, sliceVars, commitsVars, netVars>>

(***************************************************************************)
(* The commit adapter: GitHubMonitor.monitor_all_repos with                 *)
(* get_recent_commits and get_top_contributors                              *)
(***************************************************************************)
MaxApiCommits == 2      \* most commits in one response of the commits API

\* the first repositories of GITHUB_REPOS
GithubRepos == <<"pytorch/pytorch", "optuna/optuna">>

ShaLength == 8          \* commit['sha'][:8]

\* the commits the API can list: commit['sha'], commit['commit']['message']
ApiShas == {"a1b2c3d4e5f6", "0f9e8d7c6b5a", "a1b2c3d4ffff"}
ApiMessages == {"Fix typo", "Fix typo\n\nin the docs", "Add kernels"}

\* commit['html_url'] of the commit sha of a repository
HtmlUrl(repo, sha) == "https://github.com/" \o repo \o "/commit/" \o sha

\* the responses of GET /repos/{repo}/commits: no commit is listed twice
ApiCommitLists ==
    { l \in UNION {[1..n -> [sha : ApiShas, message : ApiMessages]] : n \in 0..MaxApiCommits} :
        \A i, j \in DOMAIN l : i # j => l[i].sha # l[j].sha }

\* the responses of GET /repos/{repo}/contributors, by login
ApiContributorLists == {<<>>, <<"dana">>}

\* message.split('\n')[0]
FirstLine(message) ==
    LET breaks == {i \in 1..Len(message) : SubSeq(message, i, i) = "\n"}
    IN  IF breaks = {} THEN message
        ELSE SubSeq(message, 1, (CHOOSE i \in breaks : \A j \in breaks : i <= j) - 1)

\* commit_data of get_recent_commits, lines 35-42
CommitData(repo, commit) ==
    [repo |-> repo,
     sha |-> Prefix(commit.sha, ShaLength),
     message |-> FirstLine(commit.message),
     url |-> HtmlUrl(repo, commit.sha)]

\* get_recent_commits(repo): processed_commits, or [] when the request or the
\* loop raised
GetRecentCommits(repo, failed, api_commits) ==
    IF failed THEN <<>>
    ELSE [i \in DOMAIN api_commits |-> CommitData(repo, api_commits[i])]

\* get_top_contributors(repo)
GetTopContributors(repo, failed, api_contributors) ==
    IF failed THEN <<>> ELSE api_contributors

\* github_data['commits'].extend(commits)
Extend(list, more) == list \o more

CommitsOff ==
    /\ gh_pc = "off"
    /\ gh_idx = 1
    /\ github_commits = <<>>
    /\ github_contributors = <<>>

\* github_data = {'commits': [], 'contributors': {}}
InitCommits ==
    /\ gh_pc = "repos"
    /\ gh_idx = 1
    /\ github_commits = <<>>
    /\ github_contributors = <<>>

\* one pass of "for repo in GITHUB_REPOS", lines 90-99
MonitorRepo ==
    /\ gh_pc = "repos"
    /\ gh_idx <= Len(GithubRepos)
    /\ \E failed_commits, failed_contributors \in BOOLEAN :
       \E api_commits \in ApiCommitLists :
       \E api_contributors \in ApiContributorLists :
          /\ github_commits' =
                Extend(github_commits,
                       GetRecentCommits(GithubRepos[gh_idx], failed_commits, api_commits))
          /\ github_contributors' =
                Append(github_contributors,
                       GetTopContributors(GithubRepos[gh_idx], failed_contributors,
                                          api_contributors))
    /\ gh_idx' = gh_idx + 1
    /\ UNCHANGED gh_pc
    /\ UNCHANGED <<rateVars, retryVars, clusterVars, dedupVars, aggVars, runVars, fetchVars, scoreVars, sliceVars, recordVars, netVars>>

\* return github_data
MonitorAllReposReturns ==
    /\ gh_pc = "repos"
    /\ gh_idx > Len(GithubRepos)
    /\ gh_pc' = "done"
    /\ UNCHANGED <<gh_idx, github_commits, github_contributors>>
    /\ UNCHANGED <<rateVars, retryVars, clusterVars, dedupVars, aggVars, runVars, fetchVars, scoreVars, sliceVars, recordVars, netVars>>

(***************************************************************************)
(* The three workers of main, each running its adapter: the rate_limit      *)
(* wrappers, the retries of safe_request and the sleeps between requests,   *)
(* on one clock                                                             *)
(***************************************************************************)
MaxNetTime == 6         \* the clock of the workers stops advancing here

Workers == {"github", "papers", "news"}

\* the fetch operations a worker goes through, in order: monitor_all_repos
\* for two repositories, monitor_all_keywords for one keyword and
\* monitor_all_feeds for one feed
WorkerProgram ==
    [github |-> <<"get_recent_commits", "get_top_contributors",
                  "get_recent_commits", "get_top_contributors">>,
     papers |-> <<"search_papers">>,
     news   |-> <<"fetch_rss_feed">>]

\* @rate_limit(calls_per_minute=...) of the decorated operations
RateLimitedOps == {"get_recent_commits", "get_top_contributors", "search_papers"}
CallsPerMinute ==
    [get_recent_commits |-> 30, get_top_contributors |-> 30, search_papers |-> 30]

\* the operations that go through safe_request and its retries;
\* fetch_rss_feed calls requests.get itself
UsesSafeRequest(op) == op \in RateLimitedOps

\* time.sleep(...) after an operation in the loop of the monitor, in seconds
PauseSeconds == [github |-> 0, papers |-> 2, news |-> 1]

\* the last_called cell an operation reads and writes: decorator() makes one
\* list for each decorated function
LimiterOfModule(op) == "utils"
LimiterOf(op) == op

LimiterCells == {LimiterOf(op) : op \in RateLimitedOps}

\* the operation worker w is at
OpOf(w) == WorkerProgram[w][th[w].step]

\* left_to_wait > 0 at time t for the operation op
MustWait(op, t) ==
    IntervalTimesRate - (t - limiter[LimiterOf(op)]) * CallsPerMinute[op] > 0

\* the time time.sleep(left_to_wait) is over when called at time t
WaitOver(op, t) ==
    CHOOSE u \in t..(t + IntervalTimesRate) :
        /\ (u - limiter[LimiterOf(op)]) * CallsPerMinute[op] >= IntervalTimesRate
        /\ \A v \in t..(u - 1) :
              (v - limiter[LimiterOf(op)]) * CallsPerMinute[op] < IntervalTimesRate

\* the worker after its operation returned at time t: the sleep of the loop,
\* then the next pass (the locals of retry and of a finished sleep are gone)
AfterOperation(w, t) ==
    IF PauseSeconds[w] > 0
    THEN [th[w] EXCEPT !.pc = "pause", !.wake = t + PauseSeconds[w] * UnitsPerSecond,
                       !.tries_left = Tries, !.delay = Delay]
    ELSE [th[w] EXCEPT !.pc = "enter", !.step = @ + 1,
                       !.tries_left = Tries, !.delay = Delay]

\* the times of the last two requests of a worker, after one more at time t
LastTwo(times, t) == IF Len(times) < 2 THEN Append(times, t) ELSE <<times[2], t>>

NetOff ==
    /\ net_clock = 0
    /\ th = [w \in Workers |-> [pc |-> "off", step |-> 1, wake |-> 0,
                                tries_left |-> Tries, delay |-> Delay]]
    /\ limiter = [c \in LimiterCells |-> 0]
    /\ returned_at = [op \in RateLimitedOps |-> 0]
    /\ in_flight = [w \in Workers |-> 0]
    /\ sent_at = [w \in Workers |-> <<>>]
    /\ main_pc = "off"

\* main has submitted collect_github_data, collect_papers_data and
\* collect_news_data to the executor; last_called = [0.0] in every wrapper
InitNet ==
    /\ net_clock = StartTime
    /\ th = [w \in Workers |-> [pc |-> "enter", step |-> 1, wake |-> 0,
                                tries_left |-> Tries, delay |-> Delay]]
    /\ limiter = [c \in LimiterCells |-> 0]
    /\ returned_at = [op \in RateLimitedOps |-> 0]
    /\ in_flight = [w \in Workers |-> 0]
    /\ sent_at = [w \in Workers |-> <<>>]
    /\ main_pc = "waiting"

\* time passes
Tick ==
    /\ main_pc = "waiting"
    /\ net_clock < MaxNetTime
    /\ net_clock' = net_clock + 1
    /\ UNCHANGED <<th, limiter, returned_at, in_flight, sent_at, main_pc>>
    /\ UNCHANGED <<rateVars, retryVars, clusterVars, dedupVars, aggVars, runVars, fetchVars, scoreVars, sliceVars, recordVars, commitsVars>>

\* a worker enters the wrapper of a rate-limited operation: elapsed,
\* left_to_wait and the test left_to_wait > 0
WrapperEnters ==
    /\ \E w \in Workers :
          /\ th[w].pc = "enter"
          /\ th[w].step <= Len(WorkerProgram[w])
          /\ OpOf(w) \in RateLimitedOps
          /\ th' = [th EXCEPT ![w] =
                       IF MustWait(OpOf(w), net_clock)
                       THEN [@ EXCEPT !.pc = "limit_sleep",
                                      !.wake = WaitOver(OpOf(w), net_clock)]
                       ELSE [@ EXCEPT !.pc = "send", !.tries_left = Tries,
                                      !.delay = Delay]]
    /\ UNCHANGED <<net_clock, limiter, returned_at, in_flight, sent_at, main_pc>>
    /\ UNCHANGED <<rateVars, retryVars, clusterVars, dedupVars, aggVars, runVars, fetchVars, scoreVars, sliceVars, recordVars, commitsVars>>

\* time.sleep(left_to_wait) returns and func is called
LimitSleepReturns ==
    /\ \E w \in Workers :
          /\ th[w].pc = "limit_sleep"
          /\ net_clock >= th[w].wake
          /\ th' = [th EXCEPT ![w] = [@ EXCEPT !.pc = "send", !.wake = 0,
                                               !.tries_left = Tries, !.delay = Delay]]
    /\ UNCHANGED <<net_clock, limiter, returned_at, in_flight, sent_at, main_pc>>
    /\ UNCHANGED <<rateVars, retryVars, clusterVars, dedupVars, aggVars, runVars, fetchVars, scoreVars, sliceVars, recordVars, commitsVars>>

\* requests.get sends the request: in safe_request, or in fetch_rss_feed,
\* which has no wrapper
SendRequest ==
    /\ \E w \in Workers :
          /\ \/ th[w].pc = "send"
             \/ /\ th[w].pc = "enter"
                /\ th[w].step <= Len(WorkerProgram[w])
                /\ OpOf(w) \notin RateLimitedOps
          /\ th' = [th EXCEPT ![w].pc = "flight"]
          /\ in_flight' = [in_flight EXCEPT ![w] = @ + 1]
          /\ sent_at' = [sent_at EXCEPT ![w] = LastTwo(@, net_clock)]
    /\ UNCHANGED <<net_clock, limiter, returned_at, main_pc>>
    /\ UNCHANGED <<rateVars, retryVars, clusterVars, dedupVars, aggVars, runVars, fetchVars, scoreVars, sliceVars, recordVars, commitsVars>>

\* the operation of worker w returns at the present time: the wrapper sets
\* last_called[0] = time.time()
OperationReturns(w) ==
    /\ th' = [th EXCEPT ![w] = AfterOperation(w, net_clock)]
    /\ IF OpOf(w) \in RateLimitedOps
       THEN /\ limiter' = [limiter EXCEPT ![LimiterOf(OpOf(w))] = net_clock]
            /\ returned_at' = [returned_at EXCEPT ![OpOf(w)] = net_clock]
       ELSE UNCHANGED <<limiter, returned_at>>

\* the response arrives and the operation returns its items
RequestSucceeds ==
    /\ \E w \in Workers :
          /\ th[w].pc = "flight"
          /\ in_flight' = [in_flight EXCEPT ![w] = @ - 1]
          /\ OperationReturns(w)
    /\ UNCHANGED <<net_clock, sent_at, main_pc>>
    /\ UNCHANGED <<rateVars, retryVars, clusterVars, dedupVars, aggVars, runVars, fetchVars, scoreVars, sliceVars, recordVars, commitsVars>>

\* the request fails: retry sleeps _delay while tries are left; after the
\* last try, and in fetch_rss_feed, the except clause of the operation
\* returns []
RequestFails ==
    /\ \E w \in Workers :
          /\ th[w].pc = "flight"
          /\ in_flight' = [in_flight EXCEPT ![w] = @ - 1]
          /\ IF UsesSafeRequest(OpOf(w)) /\ th[w].tries_left - 1 > 0
             THEN /\ th' = [th EXCEPT ![w] =
                               [@ EXCEPT !.pc = "backoff",
                                         !.tries_left = @ - 1,
                                         !.wake = net_clock + th[w].delay * UnitsPerSecond]]
                  /\ UNCHANGED <<limiter, returned_at>>
             ELSE OperationReturns(w)
    /\ UNCHANGED <<net_clock, sent_at, main_pc>>
    /\ UNCHANGED <<rateVars, retryVars, clusterVars, dedupVars, aggVars, runVars, fetchVars, scoreVars, sliceVars, recordVars, commitsVars>>

\* time.sleep(_delay) of retry returns; _delay *= backoff
BackoffReturns ==
    /\ \E w \in Workers :
          /\ th[w].pc = "backoff"
          /\ net_clock >= th[w].wake
          /\ th' = [th EXCEPT ![w] = [@ EXCEPT !.pc = "send", !.wake = 0,
                                               !.delay = NextDelay(@)]]
    /\ UNCHANGED <<net_clock, limiter, returned_at, in_flight, sent_at, main_pc>>
    /\ UNCHANGED <<rateVars, retryVars, clusterVars, dedupVars, aggVars, runVars, fetchVars, scoreVars, sliceVars, recordVars, commitsVars>>

\* time.sleep(2) of monitor_all_keywords, time.sleep(1) of monitor_all_feeds
PauseReturns ==
    /\ \E w \in Workers :
          /\ th[w].pc = "pause"
          /\ net_clock >= th[w].wake
          /\ th' = [th EXCEPT ![w] = [@ EXCEPT !.pc = "enter", !.wake = 0,
                                               !.step = @ + 1]]
    /\ UNCHANGED <<net_clock, limiter, returned_at, in_flight, sent_at, main_pc>>
    /\ UNCHANGED <<rateVars, retryVars, clusterVars, dedupVars, aggVars, runVars, fetchVars, scoreVars, sliceVars, recordVars, commitsVars>>

\* the loop of the monitor is over and the worker returns its items
WorkerReturns ==
    /\ \E w \in Workers :
          /\ th[w].pc = "enter"
          /\ th[w].step > Len(WorkerProgram[w])
          /\ th' = [th EXCEPT ![w].pc = "done"]
    /\ UNCHANGED <<net_clock, limiter, returned_at, in_flight, sent_at, main_pc>>
    /\ UNCHANGED <<rateVars, retryVars, clusterVars, dedupVars, aggVars, runVars, fetchVars, scoreVars, sliceVars, recordVars, commitsVars>>

\* as_completed has yielded the three futures and the with block of the
\* executor is left: main goes on with what the workers returned
MainProceeds ==
    /\ main_pc = "waiting"
    /\ \A w \in Workers : th[w].pc = "done"
    /\ main_pc' = "proceeded"
    /\ UNCHANGED <<net_clock, th, limiter, returned_at, in_flight, sent_at>>
    /\ UNCHANGED <<rateVars, retryVars, clusterVars, dedupVars, aggVars, runVars, fetchVars, scoreVars, sliceVars, recordVars, commitsVars>>

NextRate ==
    \/ Idle
    \/ WrapperEnter
    \/ SleepReturns
    \/ FuncReturns
    \/ FuncRaises

NextRetry ==
    \/ Attempt
    \/ BackoffSleep

NextCluster ==
    \/ ClusterItem
    \/ AddUnclustered
    \/ AnalyzeGithubClustersReturns

NextDedup ==
    \/ NewsRemoveDuplicates
    \/ RssRemoveDuplicates
    \/ PapersRemoveDuplicates
    \/ RemoveDuplicatesReturns
    \/ RemoveDuplicatesAgain

NextAgg ==
    \/ AnalyzeGithubClusters
    \/ AnalyzePaperClusters
    \/ AnalyzeNewsClusters
    \/ CreateIntelligentEmailContent
    \/ CollectAndEnrichClusters
    \/ BuildDynamicContent
    \/ BuildEnhancedClusterContent

NextRun ==
    \/ SubmitAll
    \/ MonitorReturns
    \/ MonitorRaises
    \/ RssMonitorRaises
    \/ FallbackMonitorReturns
    \/ FallbackMonitorRaises
    \/ TakeCompleted
    \/ ValidateData
    \/ GenerateDigest
    \/ SendDigest
    \/ CollectFreshData
    \/ GenerateDailyDigest
    \/ SchedulerSendEmail

NextFetch ==
    \/ Request
    \/ FetchRecord
    \/ FetchReturns

NextScore ==
    \/ NewsScoreArticle
    \/ RssScoreEntry
    \/ PaperScorePaper

NextSlice ==
    \/ PapersMonitorReturns
    \/ KeepRawCommits
    \/ KeepRawPapers
    \/ KeepRawArticles

NextRecord ==
    \/ ProcessArticle
    \/ ProcessRssEntry
    \/ ParsePaper
    \/ AppendIfRelevant
    \/ FilterAndClusterPaper

NextCommits ==
    \/ MonitorRepo
    \/ MonitorAllReposReturns

NextNet ==
    \/ Tick
    \/ WrapperEnters
    \/ LimitSleepReturns
    \/ SendRequest
    \/ RequestSucceeds
    \/ RequestFails
    \/ BackoffReturns
    \/ PauseReturns
    \/ WorkerReturns
    \/ MainProceeds

InitSpecRate  == InitRate /\ RetryOff /\ ClusterOff /\ DedupOff /\ AggOff /\ RunOff /\ FetchOff /\ ScoreOff /\ SliceOff /\ RecordOff /\ CommitsOff /\ NetOff
InitSpecRetry == RateOff /\ InitRetry /\ ClusterOff /\ DedupOff /\ AggOff /\ RunOff /\ FetchOff /\ ScoreOff /\ SliceOff /\ RecordOff /\ CommitsOff /\ NetOff
InitSpecCluster == RateOff /\ RetryOff /\ InitCluster /\ DedupOff /\ AggOff /\ RunOff /\ FetchOff /\ ScoreOff /\ SliceOff /\ RecordOff /\ CommitsOff /\ NetOff
InitSpecDedup == RateOff /\ RetryOff /\ ClusterOff /\ InitDedup /\ AggOff /\ RunOff /\ FetchOff /\ ScoreOff /\ SliceOff /\ RecordOff /\ CommitsOff /\ NetOff
InitSpecAgg == RateOff /\ RetryOff /\ ClusterOff /\ DedupOff /\ InitAgg /\ RunOff /\ FetchOff /\ ScoreOff /\ SliceOff /\ RecordOff /\ CommitsOff /\ NetOff
InitSpecRun == RateOff /\ RetryOff /\ ClusterOff /\ DedupOff /\ AggOff /\ InitRun /\ FetchOff /\ ScoreOff /\ SliceOff /\ RecordOff /\ CommitsOff /\ NetOff
InitSpecFetch == RateOff /\ RetryOff /\ ClusterOff /\ DedupOff /\ AggOff /\ RunOff /\ InitFetch /\ ScoreOff /\ SliceOff /\ RecordOff /\ CommitsOff /\ NetOff
InitSpecScore == RateOff /\ RetryOff /\ ClusterOff /\ DedupOff /\ AggOff /\ RunOff /\ FetchOff /\ InitScore /\ SliceOff /\ RecordOff /\ CommitsOff /\ NetOff
InitSpecSlice == RateOff /\ RetryOff /\ ClusterOff /\ DedupOff /\ AggOff /\ RunOff /\ FetchOff /\ ScoreOff /\ InitSlice /\ RecordOff /\ CommitsOff /\ NetOff
InitSpecRecord == RateOff /\ RetryOff /\ ClusterOff /\ DedupOff /\ AggOff /\ RunOff /\ FetchOff /\ ScoreOff /\ SliceOff /\ InitRecord /\ CommitsOff /\ NetOff
InitSpecCommits == RateOff /\ RetryOff /\ ClusterOff /\ DedupOff /\ AggOff /\ RunOff /\ FetchOff /\ ScoreOff /\ SliceOff /\ RecordOff /\ InitCommits /\ NetOff
InitSpecNet == RateOff /\ RetryOff /\ ClusterOff /\ DedupOff /\ AggOff /\ RunOff /\ FetchOff /\ ScoreOff /\ SliceOff /\ RecordOff /\ CommitsOff /\ InitNet

SpecRate  == InitSpecRate /\ [][NextRate]_vars
SpecRetry == InitSpecRetry /\ [][NextRetry]_vars
SpecCluster == InitSpecCluster /\ [][NextCluster]_vars
SpecDedup == InitSpecDedup /\ [][NextDedup]_vars
SpecAgg == InitSpecAgg /\ [][NextAgg]_vars
SpecRun == InitSpecRun /\ [][NextRun]_vars
SpecFetch == InitSpecFetch /\ [][NextFetch]_vars
SpecScore == InitSpecScore /\ [][NextScore]_vars
SpecSlice == InitSpecSlice /\ [][NextSlice]_vars
SpecRecord == InitSpecRecord /\ [][NextRecord]_vars
SpecCommits == InitSpecCommits /\ [][NextCommits]_vars
SpecNet == InitSpecNet /\ [][NextNet]_vars

(***************************************************************************)
(* Properties                                                              *)
(***************************************************************************)

\* C1: whenever the wrapped call of an invocation begins and the previous
\* invocation of the same operation returned, at least 60/calls_per_minute
\* seconds have passed since that return; an invocation made back to back
\* waits the full interval however long the operation was idle before.
C1_MinimumInterval ==
    (rl_pc = "calling" /\ prev_outcome = "returned") =>
        /\ (call_began - prev_return) * calls_per_minute >= IntervalTimesRate
        /\ idle_gaps[2] = 0 =>
              (call_began - invoked_at) * calls_per_minute >= IntervalTimesRate

\* a back-to-back invocation at 30 calls per minute, after an idle period of
\* twice the interval before the earlier one, begins its call 2 seconds later
C1_Witness ==
    /\ rl_pc = "calling"
    /\ prev_outcome = "returned"
    /\ calls_per_minute = 30
    /\ idle_gaps[1] * calls_per_minute >= 2 * IntervalTimesRate
    /\ idle_gaps[2] = 0
    /\ call_began - prev_return = 2 * UnitsPerSecond

\* C2: a call of safe_request makes at most 3 attempts, sleeps 1 after the
\* first failure and 2 after the second, raises after the third failure
\* without sleeping again, and ends at once on a successful attempt.
C2_ThreeAttemptsDoublingBackoff ==
    /\ Len(history) <= 3
    /\ Len(waits) <= 2
    /\ \A i \in DOMAIN waits : waits[i] = IF i = 1 THEN 1 ELSE 2
    /\ rq_pc = "attempt"  => Len(waits) = Len(history)
    /\ rq_pc = "backoff"  => Len(waits) = Len(history) - 1
    /\ rq_pc = "raised"   => /\ Len(history) = 3
                             /\ waits = <<1, 2>>
                             /\ \A i \in DOMAIN history : AttemptRaises(history[i])
    /\ rq_pc = "returned" => Len(waits) = Len(history) - 1
    /\ \A i \in DOMAIN history :
          ~AttemptRaises(history[i]) => (i = Len(history) /\ rq_pc = "returned")

\* three failed attempts with sleeps of 1 and 2, then the exception
C2_Witness ==
    /\ rq_pc = "raised"
    /\ Len(history) = 3
    /\ waits = <<1, 2>>

\* C3: an attempt that fails with a 4xx other than 429 is the only attempt
\* of its call: the call has raised and has made no backoff sleep.
C3_NonRetryablePropagates ==
    \A i \in DOMAIN history :
        NonRetryable(history[i]) =>
            (i = 1 /\ Len(history) = 1 /\ rq_pc = "raised" /\ waits = <<>>)

\* the input positions found in the buckets of clusters
Placed(pos) ==
    {<<c, i>> \in (DOMAIN clusters) \X (1..MaxItems + 1) :
        i \in DOMAIN clusters[c] /\ clusters[c][i] = pos}

\* the clusters of the table that come before cluster c
EarlierClusters(c) ==
    {ClusterOrder[j] : j \in {j \in DOMAIN ClusterOrder :
        \E k \in DOMAIN ClusterOrder : ClusterOrder[k] = c /\ j < k}}

AllClusters == {ClusterOrder[k] : k \in DOMAIN ClusterOrder}

HasMatch(item) == \E c \in AllClusters : MatchCount(c, FullText(item)) >= 1

\* C4: the cluster chosen for an item with at least one keyword match has a
\* match count at least that of every cluster, strictly above that of every
\* cluster earlier in the table, and the item is put in that cluster's bucket.
C4_MaxCountEarliestWins ==
    \A pos \in DOMAIN best_of :
        HasMatch(items[pos]) =>
            LET text == FullText(items[pos])
                chosen == best_of[pos]
            IN  /\ chosen \in AllClusters
                /\ \A c \in AllClusters :
                      MatchCount(chosen, text) >= MatchCount(c, text)
                /\ \A c \in EarlierClusters(chosen) :
                      MatchCount(c, text) < MatchCount(chosen, text)
                /\ cl_pc # "done" =>
                      \E i \in DOMAIN clusters[chosen] : clusters[chosen][i] = pos

\* an item that ties two clusters at the maximum went to the earlier one, and
\* an item went to a cluster that an earlier cluster matches with a lower count
C4_Witness ==
    /\ \E pos \in DOMAIN best_of :
          \E c \in AllClusters \ {best_of[pos]} :
              /\ best_of[pos] # ""
              /\ MatchCount(c, FullText(items[pos])) >= 1
              /\ MatchCount(c, FullText(items[pos]))
                   = MatchCount(best_of[pos], FullText(items[pos]))
    /\ \E pos \in DOMAIN best_of :
          /\ best_of[pos] # ""
          /\ \E c \in EarlierClusters(best_of[pos]) :
                MatchCount(c, FullText(items[pos])) >= 1

\* C5: in the result, an item is in no bucket exactly when it matches no
\* keyword of any cluster and its relevance score is not above 3.0.
C5_AbsentIffUnmatchedAndLowScore ==
    cl_pc = "done" =>
        \A pos \in DOMAIN items :
            (Placed(pos) = {}) <=>
                (~HasMatch(items[pos]) /\ ~(GetScore(items[pos]) > FallbackThreshold))

\* C6: every input position occurs at most once in all the buckets together.
C6_AtMostOneBucket ==
    \A pos \in DOMAIN items : Cardinality(Placed(pos)) <= 1

\* a finished run in which one item sits in a keyword bucket, another one,
\* unmatched, sits in the fallback bucket, and a third one is in no bucket
C6_Witness ==
    /\ cl_pc = "done"
    /\ \E p, q, r \in DOMAIN items :
          /\ HasMatch(items[p]) /\ Placed(p) # {}
          /\ ~HasMatch(items[q]) /\ Placed(q) # {}
          /\ Placed(r) = {}

\* lowercased and trimmed, as the claims say it
Normalized(s) == Lower(Strip(s))

\* C7: _remove_duplicates applied to its own output returns that output, the
\* same items in the same order (news, RSS and paper variant).
C7_Idempotent ==
    (dd_pc = "returned" /\ dd_pass = 2) => unique_articles = first_output

\* a second run has returned, on the output of a first run that had dropped
\* an item and kept at least two
C7_Witness ==
    /\ dd_pc = "returned"
    /\ dd_pass = 2
    /\ Len(first_output) >= 2
    /\ Len(first_output) < Len(dd_input)

\* C8: no two items of the output have the same normalized title.
C8_DistinctTitles ==
    \A i, j \in DOMAIN unique_articles :
        i < j => Normalized(unique_articles[i].title)
                   # Normalized(unique_articles[j].title)

\* a first run has returned whose input held two titles that differ as
\* written and are the same once normalized
C8_Witness ==
    /\ dd_pc = "returned"
    /\ dd_pass = 1
    /\ \E i, j \in DOMAIN dd_input :
          /\ i < j
          /\ dd_input[i].title # dd_input[j].title
          /\ Normalized(dd_input[i].title) = Normalized(dd_input[j].title)
          /\ dd_input[i] \in {unique_articles[k] : k \in DOMAIN unique_articles}

\* C9 as stated: no two items of the output of the news or RSS variant have
\* the same normalized URL, the empty URL included.
C9_DistinctUrlsEmptyIncluded ==
    variant \in {"news", "rss"} =>
        \A i, j \in DOMAIN unique_articles :
            i < j => Normalized(unique_articles[i].url)
                       # Normalized(unique_articles[j].url)

\* C9 amended: no two items of the output of the news or RSS variant have the
\* same non-empty normalized URL.
C9_DistinctNonEmptyUrls ==
    variant \in {"news", "rss"} =>
        \A i, j \in DOMAIN unique_articles :
            (i < j /\ Normalized(unique_articles[i].url) # "")
                => Normalized(unique_articles[i].url)
                     # Normalized(unique_articles[j].url)

\* a first run of the news or RSS variant has returned; its input held two
\* items with unrelated titles whose URLs differ as written and are the same,
\* non-empty, once normalized; the earlier is kept and the later dropped
C9_Witness ==
    /\ dd_pc = "returned"
    /\ dd_pass = 1
    /\ variant \in {"news", "rss"}
    /\ \E i, j \in DOMAIN dd_input :
          /\ i < j
          /\ dd_input[i].url # dd_input[j].url
          /\ Normalized(dd_input[i].url) # ""
          /\ Normalized(dd_input[i].url) = Normalized(dd_input[j].url)
          /\ ~Contains(Normalized(dd_input[j].title), Normalized(dd_input[i].title))
          /\ dd_input[i] \in {unique_articles[k] : k \in DOMAIN unique_articles}
          /\ dd_input[j] \notin {unique_articles[k] : k \in DOMAIN unique_articles}

\* C10: no two papers that survive the paper variant have the same
\* normalized URL.
C10_PapersDistinctUrls ==
    variant = "papers" =>
        \A i, j \in DOMAIN unique_articles :
            i < j => Normalized(unique_articles[i].url)
                       # Normalized(unique_articles[j].url)

\* the normalized titles of the articles accepted before position i of this run
AcceptedBefore(i) ==
    {Normalized(articles[k].title) : k \in {m \in 1..(i - 1) : verdict[m] = "accepted"}}

\* string t begins with string p
StartsWith(t, p) == Len(p) <= Len(t) /\ SubSeq(t, 1, Len(p)) = p

\* C11: in the news and RSS variants an article that is no exact duplicate is
\* rejected as a near-duplicate exactly when the first 50 characters of its
\* normalized title are a prefix of (or equal to) the normalized title of an
\* article accepted before it; when that prefix occurs in accepted titles at
\* non-initial positions only, the article is accepted.
C11_NearDuplicateIffPrefixOfAccepted ==
    variant \in {"news", "rss"} =>
        \A i \in DOMAIN verdict :
            verdict[i] # "exact" =>
                (verdict[i] = "similar"
                    <=> \E t \in AcceptedBefore(i) :
                            StartsWith(t, Prefix(Normalized(articles[i].title), PrefixLen)))

\* a is a subsequence of b
RECURSIVE IsSubsequence(_, _)
IsSubsequence(a, b) ==
    IF a = <<>> THEN TRUE
    ELSE IF b = <<>> THEN FALSE
    ELSE IF Head(a) = Head(b) THEN IsSubsequence(Tail(a), Tail(b))
    ELSE IsSubsequence(a, Tail(b))

\* two articles of the run have a deduplication key in common: the normalized
\* title, or in the news and RSS variants the non-empty normalized URL
Collide(a, b) ==
    \/ Normalized(a.title) = Normalized(b.title)
    \/ /\ variant \in {"news", "rss"}
       /\ Normalized(a.url) # ""
       /\ Normalized(a.url) = Normalized(b.url)

\* the output is a subsequence of the articles read so far and the first
\* article read is kept
OrderPreserving ==
    /\ IsSubsequence(unique_articles, SubSeq(articles, 1, Len(verdict)))
    /\ Len(unique_articles) <= Len(verdict)
    /\ Len(verdict) >= 1 => (verdict[1] = "accepted" /\ unique_articles[1] = articles[1])

\* C12 as stated: deduplication preserves order and the first occurrence wins:
\* the output is a subsequence of the input, the first input item is kept, and
\* of two items that collide on a deduplication key the one kept is the earlier.
C12_KeptOfCollidingIsEarlier ==
    /\ OrderPreserving
    /\ \A i, j \in DOMAIN verdict :
          (i < j /\ Collide(articles[i], articles[j])
                 /\ (verdict[i] = "accepted" \/ verdict[j] = "accepted"))
              => (verdict[i] = "accepted" /\ verdict[j] # "accepted")

\* C12 amended: the output is a subsequence of the input, the first input item
\* is kept, and an item that collides on a deduplication key with an earlier
\* item that was kept is dropped.
C12_LaterOfKeptCollisionDropped ==
    /\ OrderPreserving
    /\ \A i, j \in DOMAIN verdict :
          (i < j /\ Collide(articles[i], articles[j]) /\ verdict[i] = "accepted")
              => verdict[j] # "accepted"

\* a first run has returned two articles out of three: the one dropped
\* collides with an earlier one that was kept
C12_Witness ==
    /\ dd_pc = "returned"
    /\ dd_pass = 1
    /\ Len(articles) = 3
    /\ Len(unique_articles) = 2
    /\ \E i, j \in DOMAIN verdict :
          /\ i < j
          /\ Collide(articles[i], articles[j])
          /\ verdict[i] = "accepted"
          /\ verdict[j] = "exact"

\* the bucket of a cluster id in what cluster_items_by_topic returned
BucketOf(clustered, cluster_id) ==
    IF \E i \in DOMAIN clustered : clustered[i].cluster_id = cluster_id
    THEN clustered[CHOOSE i \in DOMAIN clustered : clustered[i].cluster_id = cluster_id].items
    ELSE <<>>

ClusteredOf(kind) ==
    IF kind = "github" THEN clustered_commits
    ELSE IF kind = "papers" THEN clustered_papers
    ELSE clustered_articles

\* the source kinds whose bucket for the cluster id is non-empty
KindsWithBucket(cluster_id) ==
    {kind \in {"github", "papers", "news"} : BucketOf(ClusteredOf(kind), cluster_id) # <<>>}

SubRecordOf(record, kind) ==
    IF kind = "github" THEN record.github
    ELSE IF kind = "papers" THEN record.papers
    ELSE record.news

\* C13: every cluster id with a non-empty bucket for at least one source kind
\* has exactly one record in the merged cluster set, and that record has a
\* sub-record for exactly the source kinds whose bucket for the id is non-empty.
C13_OneRecordWithExactlyTheNonEmptyKinds ==
    ag_pc \in {"merged", "built"} =>
        \A cluster_id \in AggClusterIds :
            KindsWithBucket(cluster_id) # {} =>
                /\ Cardinality({i \in DOMAIN all_clusters :
                                  all_clusters[i].cluster_id = cluster_id}) = 1
                /\ \A i \in DOMAIN all_clusters :
                      all_clusters[i].cluster_id = cluster_id =>
                          \A kind \in {"github", "papers", "news"} :
                              SubRecordOf(all_clusters[i], kind) # <<>>
                                  <=> kind \in KindsWithBucket(cluster_id)

\* commit_count + paper_count + article_count of the present sub-records
TotalItemCount(record) ==
    (IF record.github # <<>> THEN record.github[1].commit_count ELSE 0)
    + (IF record.papers # <<>> THEN record.papers[1].paper_count ELSE 0)
    + (IF record.news # <<>> THEN record.news[1].article_count ELSE 0)

\* C14: of two merged records the one with more source kinds is emitted first,
\* and of two with as many source kinds the one with the larger total item
\* count is emitted first.
C14_OrderedBySourceKindsThenItemCount ==
    ag_pc = "built" =>
        \A i, j \in DOMAIN sorted_clusters :
            i < j =>
                \/ SourceCount(sorted_clusters[i]) > SourceCount(sorted_clusters[j])
                \/ /\ SourceCount(sorted_clusters[i]) = SourceCount(sorted_clusters[j])
                   /\ TotalItemCount(sorted_clusters[i]) >= TotalItemCount(sorted_clusters[j])

\* the item count of a sub-record and the items it keeps
CountOf(kind, data) ==
    IF kind = "github" THEN data.commit_count
    ELSE IF kind = "papers" THEN data.paper_count
    ELSE data.article_count

RawOf(kind, data) ==
    IF kind = "github" THEN data.raw_commits
    ELSE IF kind = "papers" THEN data.raw_papers
    ELSE data.raw_articles

\* the record has a sub-record, and each sub-record it has counts the items
\* of the bucket it was made from and keeps items of that bucket only
BackedByItems(record) ==
    /\ SourceCount(record) >= 1
    /\ \A kind \in {"github", "papers", "news"} :
          SubRecordOf(record, kind) # <<>> =>
              LET data == SubRecordOf(record, kind)[1]
                  bucket == BucketOf(ClusteredOf(kind), record.cluster_id)
              IN  /\ CountOf(kind, data) >= 1
                  /\ CountOf(kind, data) = Len(bucket)
                  /\ \A k \in DOMAIN RawOf(kind, data) :
                        \E m \in DOMAIN bucket : RawOf(kind, data)[k] = bucket[m]

\* C15: no cluster record is fabricated: every merged record has a present
\* sub-record, every present sub-record has an item count of at least 1 that
\* is the number of items of its bucket, and when no source has a bucket the
\* merged cluster set is empty.
C15_NoFabricatedRecord ==
    ag_pc \in {"merged", "built"} =>
        /\ \A i \in DOMAIN all_clusters : BackedByItems(all_clusters[i])
        /\ \A i \in DOMAIN sorted_clusters : BackedByItems(sorted_clusters[i])
        /\ (clustered_commits = <<>> /\ clustered_papers = <<>> /\ clustered_articles = <<>>)
              => (all_clusters = <<>> /\ sorted_clusters = <<>>)

\* the clusters are merged and ordered: there are two records, one of them
\* with sub-records of two source kinds and one with a single sub-record
C15_Witness ==
    /\ ag_pc = "built"
    /\ Len(sorted_clusters) = 2
    /\ \E i, j \in DOMAIN sorted_clusters :
          /\ SourceCount(sorted_clusters[i]) >= 2
          /\ SourceCount(sorted_clusters[j]) = 1

\* what a source contributes to the digest: the list its monitor returned,
\* the empty list if its collection failed
Contribution(w) == IF raised[w] THEN <<>> ELSE produced[w]

\* C16: in main the controller goes on only when the three collectors have
\* finished, whichever of them fail and in whatever order they finish; a
\* collector that failed contributes an empty result, the result of one that
\* succeeded is passed on unchanged, and the digest is generated from these
\* results whenever one of them holds an item.
C16_WaitsForAllAndPassesResultsOn ==
    (program = "main" /\ run_pc \in {"digest", "send", "done"}) =>
        /\ \A w \in Sources : worker[w] = "done"
        /\ {taken[i] : i \in DOMAIN taken} = Sources
        /\ \A w \in Sources : x_data[w] = <<Contribution(w)>>
        /\ (\E w \in Sources : Contribution(w) # <<>>) =>
              /\ outcome # "no_data"
              /\ (run_pc \in {"send", "done"} /\ outcome # "digest_failed")
                    => digest_input = <<[w \in Sources |-> Contribution(w)]>>

\* a run of main is over and the email is out: the GitHub collector failed,
\* the papers collector returned nothing, the news collector returned an item
\* and was the first to finish
C16_Witness ==
    /\ program = "main"
    /\ run_pc = "done"
    /\ raised["github"]
    /\ ~raised["papers"] /\ produced["papers"] = <<>>
    /\ produced["news"] # <<>>
    /\ taken[1] = "news"
    /\ email_sent
    /\ digest_input = <<[w \in Sources |-> Contribution(w)]>>

\* C17: a run in which the three sources yield no item ends in the no-data
\* outcome: no digest was generated, no content produced, no email sent.
C17_NoDataEndsWithoutDigestOrEmail ==
    (run_pc = "done" /\ \A w \in Sources : Contribution(w) = <<>>) =>
        /\ outcome = "no_data"
        /\ digest_input = <<>>
        /\ email_content = "none"
        /\ ~email_sent

\* C18: whatever the request ends in (a response, a status other than 200,
\* an exception once the retries are used up, a body that cannot be read), a
\* fetch operation does not raise to its caller: it returns a list, which is
\* empty when no records were fetched.
C18_FetchReturnsAList ==
    fetch_pc = "done" =>
        /\ ~fetch_result.raised
        /\ \A k \in DOMAIN fetch_result.list :
              fetch_result.list[k] \in DOMAIN response.records
        /\ (response.raises \/ response.body # "records") => fetch_result.list = <<>>

\* a fetch has ended after its request raised
C18_Witness ==
    /\ fetch_pc = "done"
    /\ response.raises
    /\ fetch_result = [raised |-> FALSE, list |-> <<>>]

\* C19: when one record of a response is malformed the fetch still returns
\* every well-formed record of the response that passes the filters of the
\* adapter, those before the malformed record and those after it.
C19_MalformedRecordIsSkipped ==
    (/\ fetch_pc = "done"
     /\ BeforeLoop(adapter, response) = "loop"
     /\ Cardinality({i \in DOMAIN loop_records : loop_records[i] \in MalformedKinds}) = 1)
        => /\ ~fetch_result.raised
           /\ fetch_result.list =
                 SelectSeq([i \in DOMAIN loop_records |-> i],
                           LAMBDA i : loop_records[i] \notin MalformedKinds
                                      /\ ProcessRecord(adapter, loop_records[i]) = "append")


\* the terms of a list found in a text, tagged with the name of the list
TermsIn(tag, terms, text) ==
    { <<tag, terms[i]>> : i \in {j \in DOMAIN terms : Contains(terms[j], text)} }

\* the keys of a weight table, in order
TableTerms(table) == [i \in DOMAIN table |-> table[i][1]]

\* the weighted terms that match in a call of a scorer
MatchedTerms(c) ==
    LET title_lower == Lower(c.title)
        body_lower == Lower(c.body)
        full_text == ScoreFullText(c.title, c.body)
    IN  IF c.scorer = "news"
        THEN (IF Contains(Lower(c.query), title_lower) THEN {<<"keyword", "title">>} ELSE {})
             \cup (IF Contains(Lower(c.query), body_lower) THEN {<<"keyword", "description">>} ELSE {})
             \cup TermsIn("ai_terms", news_ai_terms, full_text)
             \cup TermsIn("important_orgs", news_important_orgs, full_text)
        ELSE IF c.scorer = "rss"
        THEN TermsIn("high_value_terms", rss_high_value_terms, full_text)
             \cup TermsIn("medium_value_terms", rss_medium_value_terms, full_text)
             \cup (IF RssTitleBonus(title_lower) THEN {<<"bonus", "title">>} ELSE {})
        ELSE (IF Contains(Lower(c.query), title_lower) THEN {<<"query", "title">>} ELSE {})
             \cup (IF Contains(Lower(c.query), body_lower) THEN {<<"query", "abstract">>} ELSE {})
             \cup TermsIn("high_value_orgs", TableTerms(high_value_orgs), full_text)
             \cup (IF CheckTopOrganization(c.title, c.body) THEN {<<"bonus", "top_org">>} ELSE {})
             \cup TermsIn("high_impact_tasks", TableTerms(high_impact_tasks), Lower(Join(c.tasks)))
             \cup TermsIn("cutting_edge_methods", TableTerms(cutting_edge_methods), Lower(Join(c.methods)))
             \cup TermsIn("advanced_ai_terms", TableTerms(advanced_ai_terms), full_text)

\* the arguments of two calls of the same scorer are the same
SameArguments(c, d) ==
    /\ c.scorer = d.scorer
    /\ c.title = d.title /\ c.body = d.body /\ c.query = d.query
    /\ c.tasks = d.tasks /\ c.methods = d.methods

\* call d matches every weighted term call c matches and exactly one more
OneMoreMatch(c, d) ==
    /\ c.scorer = d.scorer
    /\ MatchedTerms(c) \subseteq MatchedTerms(d)
    /\ Cardinality(MatchedTerms(d)) = Cardinality(MatchedTerms(c)) + 1

LeftOut == { cluster_bucket[i] : i \in {k \in DOMAIN cluster_bucket :
                 \A j \in DOMAIN raw_slice : raw_slice[j].id # cluster_bucket[k].id} }

\* C21: the display slice of a bucket is selected by descending relevance
\* score: no item left out of the slice has a strictly higher relevance
\* score than an item in it
C21_SliceHoldsTheHighestScores ==
    slice_pc = "done" =>
        \A out \in LeftOut : \A j \in DOMAIN raw_slice :
            ~(GetScore(out) > GetScore(raw_slice[j]))


\* the fetch loop has decided about the record
RecordDecided == rec_pc \in {"analyze", "done"}

\* C22: a record is returned by the news, RSS or paper adapter only if its
\* title and its body (description or abstract) are both non-empty and its
\* title has at least 10 characters
C22_ReturnedHasTitleAndBody ==
    (RecordDecided /\ appended) =>
        /\ built_record[1].title # ""
        /\ built_record[1].body # ""
        /\ Len(built_record[1].title) >= 10

\* the time between the publication of the paper and now, where the paper
\* has a publication date
PaperHasDate == raw_record.published.kind \in {"iso", "date_prefix"}
PaperAge == rec_now - raw_record.published.at

\* C23: with the 180-day window, a paper published 181 days or more before
\* now is dropped; a paper published 179 days or less before now, or with a
\* missing or unparsable date, is not dropped by the date filter: it is
\* returned exactly when its score passes the thresholds
C23_DateFilterWindow ==
    (RecordDecided /\ rec_adapter = "papers" /\ built_record # <<>>) =>
        LET paper == built_record[1]
            passes == PassesThresholds(paper.relevance_score, paper.has_top_org, paper.title)
        IN  /\ (PaperHasDate /\ PaperAge >= 181 * TicksPerDay) => ~appended
            /\ (PaperHasDate /\ PaperAge <= 179 * TicksPerDay) =>
                  (~DateFilterDrops(paper, rec_now) /\ (appended <=> passes))
            /\ ~PaperHasDate =>
                  (~DateFilterDrops(paper, rec_now) /\ (appended <=> passes))

\* a paper whose score passes the thresholds was dropped for being 181 days
\* old
C23_Witness ==
    /\ rec_pc = "done" /\ rec_adapter = "papers" /\ built_record # <<>>
    /\ raw_record.published.kind = "iso"
    /\ PaperAge >= 181 * TicksPerDay /\ PaperAge < 182 * TicksPerDay
    /\ PassesThresholds(built_record[1].relevance_score, built_record[1].has_top_org,
                        built_record[1].title)
    /\ ~appended

\* C24: a paper that passes the date filter is retained iff its score is
\* above 6.5, or it is a top-organization paper with a score above 4.0, or
\* its title contains a high-value keyword and its score is above 3.0; the
\* three thresholds are strictly decreasing in that order
C24_RetainedIffAboveItsThreshold ==
    /\ GeneralThreshold > TopOrgThreshold /\ TopOrgThreshold > KeywordThreshold
    /\ (RecordDecided /\ rec_adapter = "papers" /\ built_record # <<>>
        /\ ~DateFilterDrops(built_record[1], rec_now)) =>
          LET paper == built_record[1]
          IN  appended <=>
                 \/ paper.relevance_score > 65
                 \/ paper.has_top_org /\ paper.relevance_score > 40
                 \/ /\ AnyTerm(paper_high_value_keywords, Lower(paper.title))
                    /\ paper.relevance_score > 30

\* a top-organization paper with a score between 4.0 and 6.5 and no
\* high-value keyword in its title is retained
C24_Witness ==
    /\ RecordDecided /\ rec_adapter = "papers" /\ appended
    /\ built_record[1].has_top_org
    /\ built_record[1].relevance_score > 40 /\ built_record[1].relevance_score <= 65
    /\ ~AnyTerm(paper_high_value_keywords, Lower(built_record[1].title))

\* the paper matches a keyword of some cluster
MatchesClusterKeyword(paper) ==
    \E c \in AllClusters :
        MatchCount(c, Lower(Join(<<paper.title, paper.body, "">>))) > 0

\* C29: a paper the adapter returned that matches a cluster keyword or scores
\* above the fallback threshold is in a paper cluster bucket: no second,
\* stricter relevance cut discards it before clustering
C29_AdmittedPaperReachesABucket ==
    (rec_pc = "done" /\ rec_adapter = "papers" /\ appended
     /\ (\/ MatchesClusterKeyword(built_record[1])
         \/ built_record[1].relevance_score > FallbackThreshold))
        => in_paper_bucket


\* the items are commits: none carries a relevance score
AllCommits == \A i \in DOMAIN items : ~items[i].has_score

\* C30: a commit never reaches the fallback cluster: of a list of commits,
\* the buckets hold exactly the commits that match a cluster keyword, each in
\* the cluster chosen for it, and when no commit of a non-empty list matches
\* any keyword the analysis has status 'no_relevant' and there is no cluster
C30_CommitsNeverReachTheFallback ==
    (AllCommits /\ cl_pc = "done") =>
        /\ \A pos \in DOMAIN items :
              /\ ~HasMatch(items[pos]) => Placed(pos) = {}
              /\ \A e \in Placed(pos) : e[1] = best_of[pos]
        /\ (github_status # "none" /\ items # <<>>
            /\ \A pos \in DOMAIN items : ~HasMatch(items[pos]))
              => (github_status = "no_relevant" /\ DOMAIN clusters = {})

\* the analysis of two commits that match no keyword returned 'no_relevant'
C30_Witness ==
    /\ AllCommits /\ cl_pc = "done"
    /\ Len(items) >= 2
    /\ \A pos \in DOMAIN items : ~HasMatch(items[pos])
    /\ github_status = "no_relevant"


\* C25: no two commits the commit adapter hands on have the same normalized
\* first-line message or the same URL
C25_CommitsUniqueByTitleAndUrl ==
    gh_pc = "done" =>
        \A i, j \in DOMAIN github_commits :
            i # j => /\ Normalized(github_commits[i].message)
                          # Normalized(github_commits[j].message)
                     /\ github_commits[i].url # github_commits[j].url


\* the rate-limited operations of a worker
LimitedOpsOf(w) ==
    {WorkerProgram[w][i] : i \in DOMAIN WorkerProgram[w]} \cap RateLimitedOps

\* worker w sends a request in this step
Sends(w) == th[w].pc # "flight" /\ th'[w].pc = "flight"

\* worker w takes the step, and it is the entry into a wrapper
EntersWrapper(w) ==
    /\ th[w].pc = "enter"
    /\ th'[w].pc \in {"limit_sleep", "send"}

\* a step of one worker leaves the threads and the last-call timestamps of
\* the other workers alone, and the wait at the entry of a wrapper is set by
\* the last return of the same operation only
IndependentLimiters ==
    \A w \in Workers :
        /\ th'[w] # th[w] =>
              \A v \in Workers \ {w} :
                  /\ th'[v] = th[v]
                  /\ in_flight'[v] = in_flight[v]
                  /\ \A op \in LimitedOpsOf(v) :
                        limiter'[LimiterOf(op)] = limiter[LimiterOf(op)]
        /\ EntersWrapper(w) =>
              LET left == IntervalTimesRate
                          - (net_clock - returned_at[OpOf(w)]) * CallsPerMinute[OpOf(w)]
              IN  /\ th'[w].pc = "limit_sleep" <=> left > 0
                  /\ left > 0 =>
                        (th'[w].wake - returned_at[OpOf(w)]) * CallsPerMinute[OpOf(w)]
                            = IntervalTimesRate

\* C26: at every moment at most one request of each adapter is in flight,
\* and the rate limiters of different adapters are independent: a step of one
\* adapter never changes the last-call timestamp of an operation of another,
\* and the wait of an operation depends on its own last return only
C26_OneInFlightIndependentLimiters ==
    /\ [](\A w \in Workers : in_flight[w] <= 1)
    /\ [][IndependentLimiters]_vars

\* the commit adapter waits in its limiter while the requests of the other
\* two adapters are in flight and the paper limiter still has its first value
C26_Witness ==
    /\ th["github"].pc = "limit_sleep"
    /\ in_flight["papers"] = 1
    /\ in_flight["news"] = 1
    /\ limiter[LimiterOf("get_recent_commits")] > limiter[LimiterOf("search_papers")]

\* C27: every two consecutive requests of one adapter, retries included, are
\* at least the minimum interval 60 / calls_per_minute of the issuing
\* operation apart
C27_RequestsSpacedByMinInterval ==
    [][\A w \in Workers :
          (Sends(w) /\ OpOf(w) \in RateLimitedOps /\ sent_at[w] # <<>>) =>
              (net_clock - sent_at[w][Len(sent_at[w])]) * CallsPerMinute[OpOf(w)]
                  >= IntervalTimesRate]_vars

\* the time at which a timeout of one second on the fetch of every adapter
\* is over
CallerDeadline == StartTime + UnitsPerSecond

\* C28: once the timeout the caller set for the fetch of an adapter is over,
\* the adapter sends no further request
C28_NoAttemptAfterCallerTimeout ==
    [][\A w \in Workers : Sends(w) => net_clock <= CallerDeadline]_vars

====
